---------------------------- MODULE Spec2Model ----------------------------
(***************************************************************************)
(* A model of the Gabuzomeuh Game Boy emulator core (Rust).               *)
(*                                                                         *)
(* Each peripheral is a record with the fields of its Rust struct; each   *)
(* method is an operator from the record (and the arguments) to the       *)
(* record after the call, written statement by statement from the source. *)
(* The actions apply the operators to the state variables.                *)
(*                                                                         *)
(*   timer      struct Timer            (src/src/timer.rs)                 *)
(*   joy        struct JoypadState      (src/src/joypad.rs)                *)
(*   ppu        struct Ppu              (src/src/ppu.rs)                   *)
(*   ram, hram, cartridge               struct Memory (src/src/memory.rs), *)
(*              which also owns joy, timer and ppu                         *)
(*                                                                         *)
(* Byte arrays the code initialises to zero are kept sparsely: a function *)
(* whose domain holds exactly the indices with a non-zero byte.           *)
(***************************************************************************)
EXTENDS Integers, Sequences, FiniteSets, TLC

VARIABLES
    timer,        \* the Timer
    joy,          \* the JoypadState
    ppu,          \* the Ppu
    ram,          \* Memory.ram
    hram,         \* Memory.hram
    cartridge,    \* Memory.cartridge (the ROM image behind the Cartridge trait)
    panicked,     \* TRUE once a Rust panic has aborted the program
    t_last,       \* history: the last Timer method called
    t_calls,      \* history: Timer.cycle() calls since construction
    t_writes,     \* history: Timer.write_*() calls since construction
    t_since_div,  \* history: Timer.cycle() calls since the last write_div, -1 if none
    t_prev,       \* history: the Timer before the last method call
    t_val,        \* history: the byte of the last write_tac() call, -1 if none
    t_mode,       \* the shape of the timer run: "run" (configured, then run) or "ops"
    j_last,       \* history: the last JoypadState operation and the button state before it
    m_last,       \* history: the last Memory operation and the memory before it
    m_writes,     \* history: Memory.write8 calls since construction, the DMA apart
    m_dma,        \* history: the OAM DMA has run
    m_reads,      \* history: Memory.read16 calls since construction
    p_last,       \* history: the last Ppu operation, the Ppu before it, what it raised
    p_phase,      \* the shape of the Ppu run: "ops", or "frame" (set up, warmed up, one frame fed)
    p_win,        \* history: the frame being fed: dots fed, V-Blank raises, LY at its start
    p_calls,      \* history: Ppu.cycle calls of an "ops" run
    p_writes,     \* history: writes to Ppu registers since construction
    overflow_checks, \* the build panics on integer overflow (debug profile) or wraps (release)
    regs,         \* Cpu.regs, the Registers
    c_last,       \* history: the last Cpu operation and the Registers before it
    c_ops,        \* history: Cpu operations since construction
    cpu,          \* Cpu.interrupts and Cpu.enabled
    console       \* the registers IE and IF of the Console, and its tick remainder

vars == << timer, joy, ppu, ram, hram, cartridge, panicked,
           t_last, t_calls, t_writes, t_since_div, t_prev, t_val, t_mode, j_last,
           m_last, m_writes, m_dma, m_reads, p_last, p_phase, p_win, p_calls, p_writes,
           overflow_checks, regs, c_last, c_ops, cpu, console >>

timer_hist == << t_last, t_calls, t_writes, t_since_div, t_prev, t_val, t_mode >>
joy_hist   == << j_last >>
mem_hist   == << m_last, m_writes, m_dma, m_reads >>
ppu_hist   == << p_last, p_phase, p_win, p_calls, p_writes >>
cpu_vars   == << regs, c_last, c_ops, cpu, console >>

---------------------------------------------------------------------------
(* Machine integers and bit operations                                     *)

U8  == 2 ^ 8
U16 == 2 ^ 16

Byte == 0 .. 255

---------------------------------------------------------------------------
(* Bounds of the model                                                     *)

\* Timer.cycle() calls in a long run: DIV, reset to 0x18, wraps after 3712 calls
MaxRunCalls == 3720
\* Timer.write_*() calls that configure the timer before a long run
MaxSetupWrites == 4
\* Timer.cycle() calls in a run that interleaves them with writes
MaxCalls == 18
\* Timer.write_*() calls in such a run
MaxTimerWrites == 3
\* Memory.write8() and write16() calls in a behaviour, the OAM DMA apart
MaxMemWrites == 1
\* Memory.read16() calls in a behaviour
MaxMemReads == 1
\* Ppu.cycle() calls in a run that interleaves them with register writes
MaxPpuCalls == 3
\* writes to Ppu registers in a run
MaxPpuWrites == 2
MaxCpuOps == 2

---------------------------------------------------------------------------

RECURSIVE BitAnd(_, _)
\* a & b on non-negative integers
BitAnd(a, b) ==
    IF a = 0 \/ b = 0 THEN 0
    ELSE (IF a % 2 = 1 /\ b % 2 = 1 THEN 1 ELSE 0) + 2 * BitAnd(a \div 2, b \div 2)

RECURSIVE BitOr(_, _)
\* a | b on non-negative integers
BitOr(a, b) ==
    IF a = 0 THEN b
    ELSE IF b = 0 THEN a
    ELSE (IF a % 2 = 1 \/ b % 2 = 1 THEN 1 ELSE 0) + 2 * BitOr(a \div 2, b \div 2)

\* bit n of v (0 or 1)
Bit(v, n) == (v \div (2 ^ n)) % 2

\* what a read returns in the model when the Rust code panics instead of returning
Panic == 0 - 1

\* a zero-initialised byte array, kept sparsely
ZeroArray == << >>

ArrGet(a, i) == IF i \in DOMAIN a THEN a[i] ELSE 0

ArrSet(a, i, v) ==
    IF v = 0
    THEN [k \in (DOMAIN a) \ {i} |-> a[k]]
    ELSE [k \in (DOMAIN a) \cup {i} |-> IF k = i THEN v ELSE a[k]]

---------------------------------------------------------------------------
(* Timer                                                   src/src/timer.rs *)

TICKS == 16
DIVIDER_PERIOD == 256

\* impl Default for Timer
DefaultTimer ==
    [ div |-> 24, tima |-> 0, tma |-> 0, enabled |-> FALSE, step |-> 256,
      internal_div |-> 0, internal_count |-> 0 ]

timer_read_div(t) == t.div

timer_write_div(t, value) == [t EXCEPT !.div = 0]

timer_read_tima(t) == t.tima

timer_write_tima(t, value) == [t EXCEPT !.tima = value]

timer_read_tma(t) == t.tma

timer_write_tma(t, value) == [t EXCEPT !.tma = value]

\* read_tac: Panic is returned for panic!("Inconsistent step value")
timer_read_tac(t) ==
    LET clk == CASE t.step = 1024 -> 0
                 [] t.step = 16   -> 1
                 [] t.step = 64   -> 2
                 [] t.step = 256  -> 3
                 [] OTHER         -> Panic
        en  == IF t.enabled THEN 4 ELSE 0
    IN  IF clk = Panic THEN Panic ELSE BitOr(BitOr(en, clk), \hF8)

\* mutant of timer_write_tac: clock selects 01 and 10 exchanged
timer_write_tac_swapped(t, value) ==
    LET sel == BitAnd(value, 3)
    IN  [t EXCEPT !.step    = CASE sel = 0 -> 1024
                                [] sel = 1 -> 64
                                [] sel = 2 -> 16
                                [] sel = 3 -> 256,
                  !.enabled = (BitAnd(value, 4) # 0)]

timer_write_tac(t, value) ==
    LET sel == BitAnd(value, 3)
    IN  [t EXCEPT !.step    = CASE sel = 0 -> 1024
                                [] sel = 1 -> 16
                                [] sel = 2 -> 64
                                [] sel = 3 -> 256,
                  !.enabled = (BitAnd(value, 4) # 0)]

\* The byte the timer contributes to the interrupt flags.  struct Timer has no
\* pending-interrupt field and cycle() leaves the interrupt as a TODO, so the
\* timer raises nothing in any state.
timer_interrupt(t) == 0

\* mutants of timer_cycle, see the claims that name them
timer_cycle_ignore_enabled(t) ==
    LET d1 == t.internal_div + TICKS
        c1 == t.internal_count + TICKS
        hit == c1 >= t.step
    IN  [t EXCEPT
          !.div = IF d1 >= DIVIDER_PERIOD THEN (t.div + 1) % U8 ELSE t.div,
          !.internal_div = IF d1 >= DIVIDER_PERIOD THEN d1 - DIVIDER_PERIOD ELSE d1,
          !.tima = IF hit THEN (IF t.tima = 255 THEN t.tma ELSE t.tima + 1) ELSE t.tima,
          !.internal_count = IF hit THEN c1 - t.step ELSE c1]

timer_cycle_wrap_to_zero(t) ==
    LET d1 == t.internal_div + TICKS
        c1 == t.internal_count + TICKS
        hit == t.enabled /\ c1 >= t.step
    IN  [t EXCEPT
          !.div = IF d1 >= DIVIDER_PERIOD THEN (t.div + 1) % U8 ELSE t.div,
          !.internal_div = IF d1 >= DIVIDER_PERIOD THEN d1 - DIVIDER_PERIOD ELSE d1,
          !.tima = IF hit THEN (t.tima + 1) % U8 ELSE t.tima,
          !.internal_count = IF ~t.enabled THEN t.internal_count
                             ELSE IF hit THEN c1 - t.step ELSE c1]

timer_cycle_div_saturates(t) ==
    LET d1 == t.internal_div + TICKS
        c1 == t.internal_count + TICKS
        hit == t.enabled /\ c1 >= t.step
    IN  [t EXCEPT
          !.div = IF d1 >= DIVIDER_PERIOD /\ t.div < 255 THEN t.div + 1 ELSE t.div,
          !.internal_div = IF d1 >= DIVIDER_PERIOD THEN d1 - DIVIDER_PERIOD ELSE d1,
          !.tima = IF hit THEN (IF t.tima = 255 THEN t.tma ELSE t.tima + 1) ELSE t.tima,
          !.internal_count = IF ~t.enabled THEN t.internal_count
                             ELSE IF hit THEN c1 - t.step ELSE c1]

\* Timer::cycle: one call stands for TICKS ticks.  The two accumulators are u32;
\* they stay below 1024 + TICKS in every reachable state, so the sums are exact.
timer_cycle(t) ==
    LET d1 == t.internal_div + TICKS              \* internal_div += TICKS
        c1 == t.internal_count + TICKS            \* internal_count += TICKS
        hit == t.enabled /\ c1 >= t.step
    IN  [t EXCEPT
          !.div = IF d1 >= DIVIDER_PERIOD THEN (t.div + 1) % U8 ELSE t.div,
          !.internal_div = IF d1 >= DIVIDER_PERIOD THEN d1 - DIVIDER_PERIOD ELSE d1,
          !.tima = IF hit THEN (IF t.tima = 255 THEN t.tma ELSE t.tima + 1) ELSE t.tima,
          !.internal_count = IF ~t.enabled THEN t.internal_count
                             ELSE IF hit THEN c1 - t.step ELSE c1]

---------------------------------------------------------------------------
(* Timer operations as actions                                             *)

TimerFrame == UNCHANGED << joy, ppu, ram, hram, cartridge, panicked, t_mode,
                           j_last, mem_hist, ppu_hist, overflow_checks, cpu_vars >>

\* the overflow case of cycle(): TIMA is 0xFF and this call increments it
TimaOverflows(t) == t.enabled /\ t.internal_count + TICKS >= t.step /\ t.tima = 255

TWriteDiv(v) ==
    /\ timer' = timer_write_div(timer, v)
    /\ t_last' = "write_div"
    /\ t_since_div' = 0
    /\ t_writes' = t_writes + 1
    /\ t_prev' = timer
    /\ t_val' = t_val
    /\ UNCHANGED t_calls
    /\ TimerFrame

TWriteTima(v) ==
    /\ timer' = timer_write_tima(timer, v)
    /\ t_last' = "write_tima"
    /\ t_writes' = t_writes + 1
    /\ t_prev' = timer
    /\ t_val' = t_val
    /\ UNCHANGED << t_calls, t_since_div >>
    /\ TimerFrame

TWriteTma(v) ==
    /\ timer' = timer_write_tma(timer, v)
    /\ t_last' = "write_tma"
    /\ t_writes' = t_writes + 1
    /\ t_prev' = timer
    /\ t_val' = t_val
    /\ UNCHANGED << t_calls, t_since_div >>
    /\ TimerFrame

TWriteTac(v) ==
    /\ timer' = timer_write_tac(timer, v)
    /\ t_last' = "write_tac"
    /\ t_writes' = t_writes + 1
    /\ t_prev' = timer
    /\ t_val' = v
    /\ UNCHANGED << t_calls, t_since_div >>
    /\ TimerFrame

TCycle ==
    /\ timer' = timer_cycle(timer)
    /\ t_last' = "cycle"
    /\ t_calls' = t_calls + 1
    /\ t_since_div' = IF t_since_div = -1 THEN -1 ELSE t_since_div + 1
    /\ t_prev' = timer
    /\ t_val' = t_val
    /\ UNCHANGED t_writes
    /\ TimerFrame

---------------------------------------------------------------------------
(* Joypad                                                 src/src/joypad.rs *)

JOYPAD_INTERRUPT == 16

A_IDX == 0
B_IDX == 1
SELECT_IDX == 2
START_IDX == 3
RIGHT_IDX == 4
LEFT_IDX == 5
UP_IDX == 6
DOWN_IDX == 7

\* #[derive(Default)]: all buttons released, inter 0, ButtonSelection::Action
DefaultJoypad ==
    [ buttons |-> [i \in 0 .. 7 |-> FALSE], inter |-> 0, button_selection |-> "Action" ]

joypad_write(j, val) ==
    IF BitAnd(val, 32) = 0 THEN [j EXCEPT !.button_selection = "Action"]
    ELSE IF BitAnd(val, 16) = 0 THEN [j EXCEPT !.button_selection = "Direction"]
    ELSE j

bit_a(j)   == IF j.buttons[A_IDX] THEN 0 ELSE 1

bit_b_as_select(j) == IF j.buttons[B_IDX] THEN 0 ELSE 4

bit_b(j)   == IF j.buttons[B_IDX] THEN 0 ELSE 2

bit_sel(j) == IF j.buttons[SELECT_IDX] THEN 0 ELSE 4

bit_sta(j) == IF j.buttons[START_IDX] THEN 0 ELSE 8

bit_r(j)   == IF j.buttons[RIGHT_IDX] THEN 0 ELSE 1

bit_l(j)   == IF j.buttons[LEFT_IDX] THEN 0 ELSE 2

bit_u(j)   == IF j.buttons[UP_IDX] THEN 0 ELSE 4

bit_d(j)   == IF j.buttons[DOWN_IDX] THEN 0 ELSE 8

joypad_read(j) ==
    IF j.button_selection = "Action"
    THEN BitOr(BitOr(BitOr(BitOr(bit_a(j), bit_b(j)), bit_sel(j)), bit_sta(j)), 192)
    ELSE BitOr(BitOr(BitOr(BitOr(bit_r(j), bit_l(j)), bit_u(j)), bit_d(j)), 192)

joypad_interrupt(j) == j.inter

\* The host changes a button by assigning the public field: js.buttons[i] = b.
\* No method of JoypadState takes part in it, and nothing writes inter.
joypad_set_button(j, i, pressed) == [j EXCEPT !.buttons[i] = pressed]

---------------------------------------------------------------------------
(* PPU: state, registers, VRAM and OAM                       src/src/ppu.rs *)

\* enum Mode as u8
ModeU8(mode) ==
    CASE mode = "HBlank"      -> 0
      [] mode = "VBlank"      -> 1
      [] mode = "SearchOam"   -> 2
      [] mode = "Transfering" -> 3

\* enum Color as u8: White 0, LGray 1, DGray 2, Black 3
color_from_int(value) == BitAnd(value, 3)

\* impl Default for Ppu
DefaultPpu ==
    [ vram |-> ZeroArray,
      oam |-> ZeroArray,
      data |-> ZeroArray,
      sprites |-> [i \in 0 .. 9 |-> [y |-> 0, x |-> 0, index |-> 0]],
      ticks |-> 0,
      bg_palette |-> [i \in 0 .. 3 |-> i],
      sprite_palette1 |-> [i \in 0 .. 2 |-> i + 1],
      sprite_palette2 |-> [i \in 0 .. 2 |-> i + 1],
      win_tile_map_addr |-> 0,
      bg_tile_data_addr |-> 0,
      bg_tile_map_addr |-> 0,
      mode |-> "SearchOam",
      sprite_height |-> 0,
      ly |-> 0, lyc |-> 0, scy |-> 0, scx |-> 0, winx |-> 0, winy |-> 0,
      inter |-> 0,
      lcd_display_enabled |-> FALSE,
      win_enable |-> FALSE,
      sprite_enabled |-> FALSE,
      bg_window_enable |-> FALSE,
      hblank_interrupt_enabled |-> FALSE,
      vblank_interrupt_enabled |-> FALSE,
      oam_interrupt_enabled |-> FALSE,
      lyc_interrupt_enabled |-> FALSE ]

ppu_read_control(p) ==
    LET bit7 == IF p.lcd_display_enabled THEN 128 ELSE 0
        bit6 == IF p.win_tile_map_addr = \h9C00 THEN 64 ELSE 0
        bit5 == IF p.win_enable THEN 32 ELSE 0
        bit4 == IF p.bg_tile_data_addr = \h8000 THEN 16 ELSE 0
        bit3 == IF p.bg_tile_map_addr = \h9C00 THEN 8 ELSE 0
        bit2 == IF p.sprite_height = 16 THEN 4 ELSE 0
        bit1 == IF p.sprite_enabled THEN 2 ELSE 0
        bit0 == IF p.bg_window_enable THEN 1 ELSE 0
    IN  BitOr(bit7, BitOr(bit6, BitOr(bit5, BitOr(bit4,
            BitOr(bit3, BitOr(bit2, BitOr(bit1, bit0)))))))

\* the source writes the decimal 9800 (not 0x9800) when bit 3 is clear
ppu_write_control(p, value) ==
    [p EXCEPT
      !.lcd_display_enabled = (BitAnd(value, 128) = 128),
      !.win_tile_map_addr   = IF BitAnd(value, 64) = 64 THEN \h9C00 ELSE \h9800,
      !.win_enable          = (BitAnd(value, 32) = 32),
      !.bg_tile_data_addr   = IF BitAnd(value, 16) = 16 THEN \h8000 ELSE \h8800,
      !.bg_tile_map_addr    = IF BitAnd(value, 8) = 8 THEN \h9C00 ELSE 9800,
      !.sprite_height       = IF BitAnd(value, 4) = 4 THEN 16 ELSE 8,
      !.sprite_enabled      = (BitAnd(value, 2) = 2),
      !.bg_window_enable    = (BitAnd(value, 1) = 1)]

ppu_read_status(p) ==
    LET bits01 == ModeU8(p.mode)
        bit2 == IF p.ly = p.lyc THEN 4 ELSE 0
        bit3 == IF p.hblank_interrupt_enabled THEN 8 ELSE 0
        bit4 == IF p.vblank_interrupt_enabled THEN 16 ELSE 0
        bit5 == IF p.oam_interrupt_enabled THEN 32 ELSE 0
        bit6 == IF p.lyc_interrupt_enabled THEN 64 ELSE 0
    IN  BitOr(128, BitOr(bit6, BitOr(bit5, BitOr(bit4, BitOr(bit3, BitOr(bit2, bits01))))))

\* mutant of ppu_write_status: bits 1:0 of the value are stored as the mode
ppu_write_status_with_mode(p, value) ==
    [p EXCEPT
      !.mode = CHOOSE m \in { "HBlank", "VBlank", "SearchOam", "Transfering" } :
                   ModeU8(m) = BitAnd(value, 3),
      !.hblank_interrupt_enabled = (BitAnd(value, 8) = 8),
      !.vblank_interrupt_enabled = (BitAnd(value, 16) = 16),
      !.oam_interrupt_enabled    = (BitAnd(value, 32) = 32),
      !.lyc_interrupt_enabled    = (BitAnd(value, 64) = 64)]

ppu_write_status(p, value) ==
    [p EXCEPT
      !.hblank_interrupt_enabled = (BitAnd(value, 8) = 8),
      !.vblank_interrupt_enabled = (BitAnd(value, 16) = 16),
      !.oam_interrupt_enabled    = (BitAnd(value, 32) = 32),
      !.lyc_interrupt_enabled    = (BitAnd(value, 64) = 64)]

ppu_read_scy(p) == p.scy

ppu_write_scy(p, value) == [p EXCEPT !.scy = value]

ppu_read_scx(p) == p.scx

ppu_write_scx(p, value) == [p EXCEPT !.scx = value]

ppu_read_ly(p) == p.ly

ppu_read_lyc(p) == p.lyc

ppu_write_lyc(p, value) == [p EXCEPT !.lyc = value]

ppu_read_bgp(p) ==
    LET bits01 == p.bg_palette[0]
        bits23 == (p.bg_palette[1] * 4) % U8
        bits45 == (p.bg_palette[2] * 16) % U8
        bits67 == (p.bg_palette[3] * 64) % U8
    IN  BitOr(bits67, BitOr(bits45, BitOr(bits23, bits01)))

ppu_write_bgp(p, value) ==
    [p EXCEPT !.bg_palette = [i \in 0 .. 3 |-> color_from_int(value \div (4 ^ i))]]

ppu_read_obp0(p) ==
    LET bits23 == (p.sprite_palette1[0] * 4) % U8
        bits45 == (p.sprite_palette1[1] * 16) % U8
        bits67 == (p.sprite_palette1[2] * 64) % U8
    IN  BitOr(bits67, BitOr(bits45, bits23))

\* write_obp0 stores into sprite_palette1[3], past the end of the [Color; 3]
\* array: the index check panics after the three stores before it.
ppu_write_obp0(p, value) ==
    [ ppu |-> [p EXCEPT !.sprite_palette1 =
                 [i \in 0 .. 2 |-> CASE i = 0 -> 0
                                     [] i = 1 -> color_from_int(value \div 4)
                                     [] i = 2 -> color_from_int(value \div 16)]],
      panic |-> TRUE ]

ppu_read_obp1(p) ==
    LET bits23 == (p.sprite_palette2[0] * 4) % U8
        bits45 == (p.sprite_palette2[1] * 16) % U8
        bits67 == (p.sprite_palette2[2] * 64) % U8
    IN  BitOr(bits67, BitOr(bits45, bits23))

\* as write_obp0, on sprite_palette2
ppu_write_obp1(p, value) ==
    [ ppu |-> [p EXCEPT !.sprite_palette2 =
                 [i \in 0 .. 2 |-> CASE i = 0 -> 0
                                     [] i = 1 -> color_from_int(value \div 4)
                                     [] i = 2 -> color_from_int(value \div 16)]],
      panic |-> TRUE ]

ppu_read_wy(p) == p.winy

ppu_write_wy(p, value) == [p EXCEPT !.winy = value]

ppu_read_wx(p) == p.winx

ppu_write_wx(p, value) == [p EXCEPT !.winx = value]

ppu_read_vram(p, addr) == ArrGet(p.vram, BitAnd(addr, \h1FFF))

ppu_write_vram(p, addr, value) ==
    [p EXCEPT !.vram = ArrSet(p.vram, BitAnd(addr, \h1FFF), value)]

ppu_read_oam(p, addr) == ArrGet(p.oam, addr - \hFE00)

ppu_write_oam(p, addr, value) == [p EXCEPT !.oam = ArrSet(p.oam, addr - \hFE00, value)]

\* an accessor that reports no line, as a stub would
ppu_interrupt_stub(p) == 0

ppu_interrupt(p) == p.inter

\* --- Ppu::cycle ---------------------------------------------------------------

PPU_VBLANK_INTERRUPT == 1
PPU_STAT_INTERRUPT == 2

OAM_SEARCH_CYCLES == 80
PIXEL_CYCLES == 172
HBLANK_CYCLES == 204
TILE_SIZE == 8
COLS == 160
ROWS == 144
VBLANK_ROWS == 10

\* the literals of cycle(): dots in a scanline, and the most dots one pass of
\* its loop consumes
LINE_TICKS == 456
CHUNK_TICKS == 80

check_interrupt_lyc(p) ==
    IF p.lyc_interrupt_enabled /\ p.ly = p.lyc
    THEN [p EXCEPT !.inter = BitOr(@, PPU_STAT_INTERRUPT)]
    ELSE p

\* mutant of switch_to_vblank_mode: the interrupts are raised, the mode is kept
switch_to_vblank_mode_keep_mode(p) ==
    [p EXCEPT !.inter = IF p.vblank_interrupt_enabled
                        THEN BitOr(BitOr(@, PPU_VBLANK_INTERRUPT), PPU_STAT_INTERRUPT)
                        ELSE BitOr(@, PPU_VBLANK_INTERRUPT)]

switch_to_vblank_mode(p) ==
    [p EXCEPT !.mode = "VBlank",
              !.inter = IF p.vblank_interrupt_enabled
                        THEN BitOr(BitOr(@, PPU_VBLANK_INTERRUPT), PPU_STAT_INTERRUPT)
                        ELSE BitOr(@, PPU_VBLANK_INTERRUPT)]

switch_to_search_oam_mode(p) ==
    [p EXCEPT !.mode = "SearchOam",
              !.inter = IF p.oam_interrupt_enabled THEN BitOr(@, PPU_STAT_INTERRUPT) ELSE @]

\* mutant of switch_to_transfering_mode: the mode is left as it is
switch_to_transfering_mode_skipped(p) == p

switch_to_transfering_mode(p) == [p EXCEPT !.mode = "Transfering"]

\* mutant of switch_to_hblank_mode: STAT is raised whatever the enable bit
switch_to_hblank_mode_always_stat(p) ==
    [p EXCEPT !.mode = "HBlank", !.inter = BitOr(@, PPU_STAT_INTERRUPT)]

switch_to_hblank_mode(p) ==
    [p EXCEPT !.mode = "HBlank",
              !.inter = IF p.hblank_interrupt_enabled THEN BitOr(@, PPU_STAT_INTERRUPT) ELSE @]

\* oam_search: the filter of entry i,
\*   self.ly >= e[0] && self.ly < e[0] + self.sprite_height
\* "hit", "miss", or "panic" when the u8 sum overflows in a build that checks it
oam_entry_test(p, i, checks) ==
    LET y == ArrGet(p.oam, 4 * i)
        sum == y + p.sprite_height
    IN  IF ~(p.ly >= y) THEN "miss"
        ELSE IF sum >= U8 /\ checks THEN "panic"
        ELSE IF p.ly < sum % U8 THEN "hit"
        ELSE "miss"

RECURSIVE oam_search_from(_, _, _, _)
\* the entries i .. 39 in order, arr_idx sprites taken so far; take(10) ends the
\* iteration when the tenth has been taken
oam_search_from(r, i, arr_idx, checks) ==
    IF i >= 40 \/ arr_idx >= 10 THEN r
    ELSE LET t == oam_entry_test(r.ppu, i, checks)
         IN  IF t = "panic" THEN [r EXCEPT !.panic = TRUE]
             ELSE IF t = "hit"
             THEN oam_search_from(
                      [r EXCEPT !.ppu.sprites[arr_idx] =
                          [ y |-> ArrGet(r.ppu.oam, 4 * i),
                            x |-> ArrGet(r.ppu.oam, 4 * i + 1),
                            index |-> (4 * i) % U8 ]],
                      i + 1, arr_idx + 1, checks)
             ELSE oam_search_from(r, i + 1, arr_idx, checks)

\* the entries whose first byte is not zero
oam_nonzero_entries(p) == { k \div 4 : k \in { d \in DOMAIN p.oam : d % 4 = 0 } }

\* no entry passes the filter: not the entries with y = 0, which all fare alike,
\* and not the others
oam_search_finds_none(p, checks) ==
    /\ ~(p.ly < p.sprite_height)
    /\ \A i \in oam_nonzero_entries(p) : oam_entry_test(p, i, checks) = "miss"

\* oam_search: [ppu, panic].  A search that finds no sprite writes nothing.
oam_search(p, checks) ==
    IF oam_search_finds_none(p, checks)
    THEN [ppu |-> p, panic |-> FALSE]
    ELSE oam_search_from([ppu |-> p, panic |-> FALSE], 0, 0, checks)

\* the colour draw_bg computes for column x of the current line
bg_pixel(p, x) ==
    LET bg_y == (p.ly + p.scy) % U8
        bg_x == (p.scx + (x % U8)) % U8
        tile_y == bg_y \div TILE_SIZE
        tile_x == bg_x \div TILE_SIZE
        tile_idx == ppu_read_vram(p, p.bg_tile_map_addr + tile_y * 32 + tile_x)
        tile_addr == IF p.bg_tile_data_addr = \h8000
                     THEN p.bg_tile_data_addr + tile_idx * 16
                     ELSE p.bg_tile_data_addr + ((tile_idx + 128) % U8) * 16
        pixel_y == BitAnd(bg_y, 7)
        byte1 == ppu_read_vram(p, tile_addr + pixel_y * 2)
        byte2 == ppu_read_vram(p, tile_addr + pixel_y * 2 + 1)
        pixel_x == BitAnd(bg_x, 7)
    IN  (IF Bit(byte1, pixel_x) # 0 THEN 1 ELSE 0) + (IF Bit(byte2, pixel_x) # 0 THEN 2 ELSE 0)

\* draw_bg: every column of line ly of the framebuffer is assigned
draw_bg(p) ==
    IF ~p.bg_window_enable THEN p
    ELSE LET row == { p.ly * COLS + x : x \in 0 .. COLS - 1 }
             lit == { x \in 0 .. COLS - 1 : bg_pixel(p, x) # 0 }
         IN  [p EXCEPT !.data =
                 [k \in ((DOMAIN p.data) \ row) \cup { p.ly * COLS + x : x \in lit } |->
                     IF k \in row THEN bg_pixel(p, k - p.ly * COLS) ELSE p.data[k]]]

draw_sprites(p) == p

draw(p) == draw_sprites(draw_bg(p))

\* The second half of a pass of the loop of cycle(): on a visible line the mode
\* follows the dot counter.  The result is [ppu, panic].
ppu_follow_dots(p, checks) ==
    IF p.ly < ROWS
    THEN IF p.ticks <= OAM_SEARCH_CYCLES
         THEN IF p.mode # "SearchOam"
              THEN oam_search(switch_to_search_oam_mode(p), checks)
              ELSE [ppu |-> p, panic |-> FALSE]
         ELSE IF p.ticks <= OAM_SEARCH_CYCLES + PIXEL_CYCLES
         THEN IF p.mode # "Transfering"
              THEN [ppu |-> draw(switch_to_transfering_mode(p)), panic |-> FALSE]
              ELSE [ppu |-> p, panic |-> FALSE]
         ELSE IF p.mode # "HBlank"
              THEN [ppu |-> switch_to_hblank_mode(p), panic |-> FALSE]
              ELSE [ppu |-> p, panic |-> FALSE]
    ELSE [ppu |-> p, panic |-> FALSE]

\* mutant of ppu_add_dots: LY is incremented without the wrap at line 154
ppu_add_dots_ly_unwrapped(p, current_ticks) ==
    LET t1 == p.ticks + current_ticks
    IN  IF t1 >= LINE_TICKS
        THEN LET p1 == check_interrupt_lyc(
                           [p EXCEPT !.ticks = t1 - LINE_TICKS,
                                     !.ly = p.ly + 1])
             IN  IF p1.ly >= 144 /\ p1.mode # "VBlank"
                 THEN switch_to_vblank_mode(p1)
                 ELSE p1
        ELSE [p EXCEPT !.ticks = t1]

\* mutant of ppu_add_dots: V-Blank is entered one line early
ppu_add_dots_vblank_at_143(p, current_ticks) ==
    LET t1 == p.ticks + current_ticks
    IN  IF t1 >= LINE_TICKS
        THEN LET p1 == check_interrupt_lyc(
                           [p EXCEPT !.ticks = t1 - LINE_TICKS,
                                     !.ly = (p.ly + 1) % (ROWS + VBLANK_ROWS)])
             IN  IF p1.ly >= 143 /\ p1.mode # "VBlank"
                 THEN switch_to_vblank_mode(p1)
                 ELSE p1
        ELSE [p EXCEPT !.ticks = t1]

\* The first half of a pass: the dots are added, and a full line increments LY
ppu_add_dots(p, current_ticks) ==
    LET t1 == p.ticks + current_ticks
    IN  IF t1 >= LINE_TICKS
        THEN LET p1 == check_interrupt_lyc(
                           [p EXCEPT !.ticks = t1 - LINE_TICKS,
                                     !.ly = (p.ly + 1) % (ROWS + VBLANK_ROWS)])
             IN  IF p1.ly >= 144 /\ p1.mode # "VBlank"
                 THEN switch_to_vblank_mode(p1)
                 ELSE p1
        ELSE [p EXCEPT !.ticks = t1]

\* one pass of the loop of cycle() over current_ticks dots: [ppu, panic]
ppu_chunk(p, current_ticks, checks) ==
    ppu_follow_dots(ppu_add_dots(p, current_ticks), checks)

\* whether the pass that takes the Ppu from p to q keeps the mode, or moves it
\* to the mode that follows it: SearchOam, Transfering, HBlank on one line,
\* then SearchOam on the next line or VBlank on line 144, and SearchOam on
\* line 0 after VBlank
pass_in_order(p, q) ==
    IF q.mode = p.mode THEN q.ly = p.ly \/ q.mode = "VBlank"
    ELSE CASE p.mode = "SearchOam"   -> q.mode = "Transfering" /\ q.ly = p.ly
           [] p.mode = "Transfering" -> q.mode = "HBlank" /\ q.ly = p.ly
           [] p.mode = "HBlank"      ->
                  \/ q.mode = "SearchOam" /\ q.ly = p.ly + 1 /\ q.ly < ROWS
                  \/ q.mode = "VBlank" /\ q.ly = ROWS
           [] p.mode = "VBlank"      -> q.mode = "SearchOam" /\ q.ly = 0

\* A run of cycle(): the Ppu, whether it has panicked, how many passes have
\* raised the V-Blank bit and the STAT bit, how many have called draw() (the
\* passes that switch to Transfering) and how many have changed the mode out
\* of order.  The code only ORs bits into inter and never reads it, so a pass
\* is run on a clear latch to see what it raises and the bits it found set
\* are put back.  c is the outcome of the pass.
ppu_pass_result(r, c) ==
    [ ppu |-> [c.ppu EXCEPT !.inter = BitOr(r.ppu.inter, c.ppu.inter)],
      panic |-> c.panic,
      vblanks |-> r.vblanks + Bit(c.ppu.inter, 0),
      stats |-> r.stats + Bit(c.ppu.inter, 1),
      draws |-> r.draws + (IF r.ppu.mode # "Transfering" /\ c.ppu.mode = "Transfering"
                           THEN 1 ELSE 0),
      jumps |-> r.jumps + (IF pass_in_order(r.ppu, c.ppu) THEN 0 ELSE 1) ]

ppu_run_pass(r, current_ticks, checks) ==
    CHOOSE x \in { ppu_pass_result(r, c) :
                       c \in { ppu_chunk([r.ppu EXCEPT !.inter = 0], current_ticks, checks) } } :
        TRUE

\* the run of cycle() before its first pass
ppu_run_start(p) ==
    [ppu |-> p, panic |-> FALSE, vblanks |-> 0, stats |-> 0, draws |-> 0, jumps |-> 0]

RECURSIVE ppu_cycle_loop(_, _, _)
RECURSIVE ppu_cycle_rest(_, _, _)

\* the passes that follow, once the earlier ones have produced r
ppu_cycle_rest(r, ticks_left, checks) ==
    IF r.panic THEN r ELSE ppu_cycle_loop(r, ticks_left, checks)

\* while ticks_left > 0 { current_ticks = min(80, ticks_left); .. }: the passes
\* in order (a long run is cut in two at a pass boundary to keep the
\* evaluation shallow)
ppu_cycle_loop(r, ticks_left, checks) ==
    IF ticks_left <= 0 THEN r
    ELSE IF ticks_left <= CHUNK_TICKS THEN ppu_run_pass(r, ticks_left, checks)
    ELSE IF ticks_left < 2 * CHUNK_TICKS
    THEN ppu_cycle_rest(ppu_run_pass(r, CHUNK_TICKS, checks),
                        ticks_left - CHUNK_TICKS, checks)
    ELSE LET first == CHUNK_TICKS * ((ticks_left \div CHUNK_TICKS) \div 2)
         IN  ppu_cycle_rest(ppu_cycle_loop(r, first, checks), ticks_left - first, checks)

\* mutant of ppu_cycle: the enabled test is dropped
ppu_cycle_when_disabled(p, ticks, checks) ==
    ppu_cycle_loop(ppu_run_start(p), ticks, checks)

\* Ppu::cycle(ticks): [ppu, panic, vblanks, stats, draws, jumps]
ppu_cycle(p, ticks, checks) ==
    IF ~p.lcd_display_enabled
    THEN ppu_run_start(p)
    ELSE ppu_cycle_loop(ppu_run_start(p), ticks, checks)

---------------------------------------------------------------------------
(* Cartridge                                           src/src/cartridge.rs *)

\* NoMapperCartridge: data is the ROM image (a Vec<u8>), len its length.
\* Indexing past the end of the Vec panics.
cart_read_rom(c, addr) == IF addr < c.len THEN ArrGet(c.data, addr) ELSE Panic

cart_read_ram(c, addr) == 0

cart_write_rom(c, addr, val) == c

cart_write_ram(c, addr, val) == c

---------------------------------------------------------------------------
(* Memory                                                 src/src/memory.rs *)

RAM_SIZE == 8192
HRAM_SIZE == 127

\* struct Memory as a record, with the panic state of the thread beside it
Mem == [ ram |-> ram, hram |-> hram, cartridge |-> cartridge,
         joy |-> joy, timer |-> timer, ppu |-> ppu, panicked |-> panicked ]

\* self.ram[i]: the slice index is checked against RAM_SIZE
ram_index(addr) == BitAnd(addr, \h0FFF)

\* the Work RAM and Echo RAM arms of read8 and write8
mem_read_wram(m, addr) == ArrGet(m.ram, ram_index(addr))

mem_read_echo(m, addr) == ArrGet(m.ram, ram_index(addr))

mem_write_wram(m, addr, val) == [m EXCEPT !.ram = ArrSet(@, ram_index(addr), val)]

\* mutant of mem_write_echo: the echo arm alone masks with 0x1FFF
mem_write_echo_full_mask(m, addr, val) ==
    [m EXCEPT !.ram = ArrSet(@, BitAnd(addr, \h1FFF), val)]

mem_write_echo(m, addr, val) == [m EXCEPT !.ram = ArrSet(@, ram_index(addr), val)]

mem_read8(m, addr) ==
    CASE addr <= \h7FFF                      -> cart_read_rom(m.cartridge, addr)
      [] addr >= \h8000 /\ addr <= \h9FFF    -> ppu_read_vram(m.ppu, addr)
      [] addr >= \hA000 /\ addr <= \hBFFF    -> cart_read_ram(m.cartridge, addr)
      [] addr >= \hC000 /\ addr <= \hDFFF    -> mem_read_wram(m, addr)
      [] addr >= \hE000 /\ addr <= \hFDFF    -> mem_read_echo(m, addr)
      [] addr >= \hFE00 /\ addr <= \hFE9F    -> ppu_read_oam(m.ppu, addr)
      [] addr = \hFF00                       -> joypad_read(m.joy)
      [] addr = \hFF04                       -> timer_read_div(m.timer)
      [] addr = \hFF05                       -> timer_read_tima(m.timer)
      [] addr = \hFF06                       -> timer_read_tma(m.timer)
      [] addr = \hFF07                       -> timer_read_tac(m.timer)
      [] addr = \hFF40                       -> ppu_read_control(m.ppu)
      [] addr = \hFF41                       -> ppu_read_status(m.ppu)
      [] addr = \hFF42                       -> ppu_read_scy(m.ppu)
      [] addr = \hFF43                       -> ppu_read_scx(m.ppu)
      [] addr = \hFF44                       -> ppu_read_ly(m.ppu)
      [] addr = \hFF45                       -> ppu_read_lyc(m.ppu)
      [] addr = \hFF46                       -> 0
      [] addr = \hFF47                       -> ppu_read_bgp(m.ppu)
      [] addr = \hFF48                       -> ppu_read_obp0(m.ppu)
      [] addr = \hFF49                       -> ppu_read_obp1(m.ppu)
      [] addr = \hFF4A                       -> ppu_read_wy(m.ppu)
      [] addr = \hFF4B                       -> ppu_read_wx(m.ppu)
      [] addr >= \hFF80 /\ addr <= \hFFFE    -> ArrGet(m.hram, addr - \hFF80)
      [] OTHER                               -> \hFF

RECURSIVE mem_write8(_, _, _)
RECURSIVE oam_dma_range(_, _, _, _)
RECURSIVE oam_dma_rest(_, _, _, _)

\* one iteration of the loop of oam_dma:
\*   let byte = self.read8(source_address + offset);
\*   self.write8(0xFE00 + offset, byte);
oam_dma_step(m, source_address, offset) ==
    IF m.panicked THEN m
    ELSE LET byte == mem_read8(m, source_address + offset)
         IN  IF byte = Panic
             THEN [m EXCEPT !.panicked = TRUE]
             ELSE mem_write8(m, \hFE00 + offset, byte)

\* the iterations mid .. hi-1, after the earlier ones have produced m; a panic
\* in the earlier ones has ended the loop
oam_dma_rest(m, source_address, mid, hi) ==
    IF m.panicked THEN m ELSE oam_dma_range(m, source_address, mid, hi)

\* the iterations lo .. hi-1 of the loop, in increasing order of offset (the
\* range is halved to keep the evaluation shallow; the order is the loop's)
oam_dma_range(m, source_address, lo, hi) ==
    IF hi <= lo THEN m
    ELSE IF hi = lo + 1 THEN oam_dma_step(m, source_address, lo)
    ELSE LET mid == (lo + hi) \div 2
         IN  oam_dma_rest(oam_dma_range(m, source_address, lo, mid),
                          source_address, mid, hi)

\* mutant of oam_dma: the copy starts at the second byte
oam_dma_skip_first(m, value) == oam_dma_range(m, (value * 256) % U16, 1, \hA0)

\* let source_address = (value as u16) << 8; for offset in 0..0xA0 { .. }
oam_dma(m, value) == oam_dma_range(m, (value * 256) % U16, 0, \hA0)

mem_write8(m, addr, val) ==
    CASE addr <= \h7FFF                   -> [m EXCEPT !.cartridge = cart_write_rom(@, addr, val)]
      [] addr >= \h8000 /\ addr <= \h9FFF -> [m EXCEPT !.ppu = ppu_write_vram(@, addr, val)]
      [] addr >= \hA000 /\ addr <= \hBFFF -> [m EXCEPT !.cartridge = cart_write_ram(@, addr, val)]
      [] addr >= \hC000 /\ addr <= \hDFFF -> mem_write_wram(m, addr, val)
      [] addr >= \hE000 /\ addr <= \hFDFF -> mem_write_echo(m, addr, val)
      [] addr >= \hFE00 /\ addr <= \hFE9F -> [m EXCEPT !.ppu = ppu_write_oam(@, addr, val)]
      [] addr = \hFF00                    -> [m EXCEPT !.joy = joypad_write(@, val)]
      [] addr = \hFF04                    -> [m EXCEPT !.timer = timer_write_div(@, val)]
      [] addr = \hFF05                    -> [m EXCEPT !.timer = timer_write_tima(@, val)]
      [] addr = \hFF06                    -> [m EXCEPT !.timer = timer_write_tma(@, val)]
      [] addr = \hFF07                    -> [m EXCEPT !.timer = timer_write_tac(@, val)]
      [] addr = \hFF40                    -> [m EXCEPT !.ppu = ppu_write_control(@, val)]
      [] addr = \hFF41                    -> [m EXCEPT !.ppu = ppu_write_status(@, val)]
      [] addr = \hFF42                    -> [m EXCEPT !.ppu = ppu_write_scy(@, val)]
      [] addr = \hFF43                    -> [m EXCEPT !.ppu = ppu_write_scx(@, val)]
      [] addr = \hFF45                    -> [m EXCEPT !.ppu = ppu_write_lyc(@, val)]
      [] addr = \hFF46                    -> oam_dma(m, val)
      [] addr = \hFF47                    -> [m EXCEPT !.ppu = ppu_write_bgp(@, val)]
      [] addr = \hFF48                    -> [m EXCEPT !.ppu = ppu_write_obp0(@, val).ppu,
                                                       !.panicked = TRUE]
      [] addr = \hFF49                    -> [m EXCEPT !.ppu = ppu_write_obp1(@, val).ppu,
                                                       !.panicked = TRUE]
      [] addr = \hFF4A                    -> [m EXCEPT !.ppu = ppu_write_wy(@, val)]
      [] addr = \hFF4B                    -> [m EXCEPT !.ppu = ppu_write_wx(@, val)]
      [] addr >= \hFF80 /\ addr <= \hFFFE -> [m EXCEPT !.hram = ArrSet(@, addr - \hFF80, val)]
      [] OTHER                            -> m

\* addr + 1 on a u16: past 0xFFFF the sum panics in a build with overflow
\* checks ("attempt to add with overflow") and wraps to 0 in one without
addr_plus_one(addr, checks) ==
    IF addr + 1 < U16 THEN addr + 1
    ELSE IF checks THEN Panic
    ELSE (addr + 1) % U16

\* read16: Panic when the call panics
mem_read16(m, addr, checks) ==
    LET lb == mem_read8(m, addr)
        a1 == addr_plus_one(addr, checks)
    IN  IF lb = Panic \/ a1 = Panic THEN Panic
        ELSE LET hb == mem_read8(m, a1)
             IN  IF hb = Panic THEN Panic
                 ELSE BitOr((hb * 256) % U16, lb)

\* write16: the low byte is written before addr + 1 is computed
mem_write16(m, addr, val, checks) ==
    LET lb == val % U8
        hb == (val \div 256) % U8
        m1 == mem_write8(m, addr, lb)
        a1 == addr_plus_one(addr, checks)
    IN  IF m1.panicked THEN m1
        ELSE IF a1 = Panic THEN [m1 EXCEPT !.panicked = TRUE]
        ELSE mem_write8(m1, a1, hb)

---------------------------------------------------------------------------
(* Registers and Cpu                                         src/src/cpu.rs *)

FLAG_ZERO == 128
FLAG_SUB == 64
FLAG_HALF == 32
FLAG_CARRY == 16

RECURSIVE BitXor(_, _)
\* a ^ b on non-negative integers
BitXor(a, b) ==
    IF a = 0 THEN b
    ELSE IF b = 0 THEN a
    ELSE (IF a % 2 # b % 2 THEN 1 ELSE 0) + 2 * BitXor(a \div 2, b \div 2)

\* #[derive(Default)] struct Cpu: the two bool fields
DefaultCpu == [ interrupts |-> FALSE, enabled |-> FALSE ]

\* the interrupt registers the Console owns, IE (0xFFFF) and IF (0xFF0F), and
\* the ticks not yet handed to Timer::cycle, at power-on
DefaultConsole == [ ie |-> 0, iflag |-> 0, tt |-> 0 ]

\* #[derive(Default)] struct Registers
DefaultRegisters ==
    [ a |-> 0, b |-> 0, c |-> 0, d |-> 0, e |-> 0, f |-> 0, h |-> 0, l |-> 0,
      sp |-> 0, pc |-> 0 ]

\* mutant of set_af: F takes the whole low byte
set_af_whole_byte(r, val) ==
    [r EXCEPT !.a = (val \div 256) % U8, !.f = val % U8]

\* a = (val >> 8) as u8; f = (val & 0xF0) as u8
set_af(r, val) ==
    [r EXCEPT !.a = (val \div 256) % U8, !.f = BitAnd(val, \hF0) % U8]

get_af(r) == BitOr(r.f, (r.a * 256) % U16)

isset_flag(r, flag) == BitAnd(r.f, flag) = flag

\* f |= flag
toggle_flag(r, flag) == [r EXCEPT !.f = BitOr(@, flag)]

\* f &= !flag
clear_flag(r, flag) == [r EXCEPT !.f = BitAnd(@, (U8 - 1) - flag)]

toggle_zero_flag(r, value) == IF value = 0 THEN toggle_flag(r, FLAG_ZERO) ELSE r

toggle_carry_flag(r, value) ==
    IF BitAnd(value, \h100) # 0 THEN toggle_flag(r, FLAG_CARRY) ELSE r

toggle_half_flag(r, value) ==
    IF BitAnd(value, \h10) # 0 THEN toggle_flag(r, FLAG_HALF) ELSE r

\* Cpu::add8: the sum is a u32; Z, C and H are set from it after F is cleared
add8(r, value, use_carry) ==
    LET carry_value == IF use_carry /\ isset_flag(r, FLAG_CARRY) THEN 1 ELSE 0
        result == carry_value + r.a + value
        r1 == [r EXCEPT !.a = result % U8, !.f = 0]
        r2 == toggle_zero_flag(r1, result % U8)
        r3 == toggle_carry_flag(r2, result)
    IN  toggle_half_flag(r3, result)

\* Cpu::sub8 with the half borrow computed without the carry-in
sub8_half_without_carry(r, value, use_carry) ==
    LET carry_value == IF use_carry /\ BitAnd(r.f, FLAG_CARRY) = FLAG_CARRY THEN 1 ELSE 0
        result == (r.a + 2 * U8 - value - carry_value) % U8
        r1 == toggle_zero_flag([r EXCEPT !.f = FLAG_SUB], result)
        r2 == IF BitAnd(r.a, \h0F) < BitAnd(value, \h0F)
              THEN toggle_flag(r1, FLAG_HALF) ELSE r1
        r3 == IF r.a < value + carry_value THEN toggle_flag(r2, FLAG_CARRY) ELSE r2
    IN  [r3 EXCEPT !.a = result]

\* Cpu::sub8: Wrapping<u8> arithmetic
sub8(r, value, use_carry) ==
    LET carry_value == IF use_carry /\ BitAnd(r.f, FLAG_CARRY) = FLAG_CARRY THEN 1 ELSE 0
        result == (r.a + 2 * U8 - value - carry_value) % U8
        r1 == toggle_zero_flag([r EXCEPT !.f = FLAG_SUB], result)
        r2 == IF BitAnd(r.a, \h0F) < BitAnd(value, \h0F) + carry_value
              THEN toggle_flag(r1, FLAG_HALF) ELSE r1
        r3 == IF r.a < value + carry_value THEN toggle_flag(r2, FLAG_CARRY) ELSE r2
    IN  [r3 EXCEPT !.a = result]

add_imm(r, value) == add8(r, value, FALSE)

adc_imm(r, value) == add8(r, value, TRUE)

sub_imm(r, value) == sub8(r, value, FALSE)

sbc_imm(r, value) == sub8(r, value, TRUE)

and_imm(r, value) ==
    LET a1 == BitAnd(r.a, value)
    IN  toggle_zero_flag([r EXCEPT !.a = a1, !.f = FLAG_HALF], a1)

xor_imm(r, value) ==
    LET a1 == BitXor(r.a, value)
    IN  toggle_zero_flag([r EXCEPT !.a = a1, !.f = 0], a1)

or_imm(r, value) ==
    LET a1 == BitOr(r.a, value)
    IN  toggle_zero_flag([r EXCEPT !.a = a1, !.f = 0], a1)

cp_imm(r, value) == [sub8(r, value, FALSE) EXCEPT !.a = r.a]

\* Cpu::inc(value): [regs, result]
inc(r, value) ==
    LET result == (value + 1) % U8
        r1 == toggle_half_flag([r EXCEPT !.f = 0], result)
    IN  [regs |-> toggle_zero_flag(r1, result), result |-> result]

\* Cpu::dec(value): [regs, result]
dec(r, value) ==
    LET result == (value + U8 - 1) % U8
        r1 == [r EXCEPT !.f = FLAG_SUB]
        r2 == IF BitAnd(value, \h0F) = 0 THEN toggle_flag(r1, FLAG_HALF) ELSE r1
    IN  [regs |-> toggle_zero_flag(r2, result), result |-> result]

\* Cpu::daa (the comparison with 99 is the source's)
daa(r) ==
    LET a0 == r.a
        a1 == IF BitAnd(a0, \h0F) > 9 \/ isset_flag(r, FLAG_HALF)
              THEN (a0 + 6) % U8 ELSE a0
        high == BitAnd(a1, \hF0) > \h90 \/ isset_flag(r, FLAG_CARRY)
        r1 == IF high /\ a1 + \h60 > 99 THEN toggle_flag(r, FLAG_CARRY) ELSE r
        a2 == IF high THEN (a1 + \h60) % U8 ELSE a1
        r2 == clear_flag(toggle_zero_flag(r1, a2), FLAG_HALF)
    IN  [r2 EXCEPT !.a = a2]

cpl(r) == [r EXCEPT !.a = (U8 - 1) - r.a, !.f = FLAG_SUB + FLAG_HALF]

ccf(r) ==
    IF isset_flag(r, FLAG_CARRY) THEN clear_flag(r, FLAG_CARRY)
    ELSE toggle_flag(r, FLAG_CARRY)

\* self.regs.sp -= 2 and self.regs.sp += 2 on a u16: Panic when the build
\* checks the overflow
sp_minus_two(sp, checks) ==
    IF sp >= 2 THEN sp - 2 ELSE IF checks THEN Panic ELSE (sp + U16 - 2) % U16

sp_plus_two(sp, checks) ==
    IF sp + 2 < U16 THEN sp + 2 ELSE IF checks THEN Panic ELSE (sp + 2) % U16

\* Cpu::push(val): [regs, mem]
push(r, m, val, checks) ==
    LET sp1 == sp_minus_two(r.sp, checks)
    IN  IF sp1 = Panic THEN [regs |-> r, mem |-> [m EXCEPT !.panicked = TRUE]]
        ELSE [regs |-> [r EXCEPT !.sp = sp1], mem |-> mem_write16(m, sp1, val, checks)]

\* Cpu::pop(): [regs, val, panic]
pop(r, m, checks) ==
    LET temp == mem_read16(m, r.sp, checks)
        sp1 == sp_plus_two(r.sp, checks)
    IN  IF temp = Panic \/ sp1 = Panic
        THEN [regs |-> r, val |-> 0, panic |-> TRUE]
        ELSE [regs |-> [r EXCEPT !.sp = sp1], val |-> temp, panic |-> FALSE]

\* the arm 0xF1 of execute (POP AF): pop, then set_af
pop_af(r, m, checks) ==
    LET t == pop(r, m, checks)
    IN  IF t.panic THEN t ELSE [t EXCEPT !.regs = set_af(t.regs, t.val)]

\* the arm 0xF5 of execute (PUSH AF)
push_af(r, m, checks) == push(r, m, get_af(r), checks)

\* Cpu::fetch_byte: [regs, val]; PC wraps
fetch_byte(r, m) ==
    [regs |-> [r EXCEPT !.pc = (r.pc + 1) % U16], val |-> mem_read8(m, r.pc)]

\* Cpu::fetch_word: [regs, val]; val is Panic when read16 panics
fetch_word(r, m, checks) ==
    [regs |-> [r EXCEPT !.pc = (r.pc + 2) % U16], val |-> mem_read16(m, r.pc, checks)]

\* Cpu::call(val): [regs, mem]; the word written at the new SP is val
call(r, m, val, checks) ==
    LET sp1 == sp_minus_two(r.sp, checks)
    IN  IF sp1 = Panic THEN [regs |-> r, mem |-> [m EXCEPT !.panicked = TRUE]]
        ELSE [regs |-> [r EXCEPT !.sp = sp1, !.pc = val],
              mem |-> mem_write16(m, sp1, val, checks)]

\* Cpu::ret(): [regs, panic]
ret(r, m, checks) ==
    LET w == mem_read16(m, r.sp, checks)
        sp1 == sp_plus_two(r.sp, checks)
    IN  IF w = Panic \/ sp1 = Panic THEN [regs |-> r, panic |-> TRUE]
        ELSE [regs |-> [r EXCEPT !.pc = w, !.sp = sp1], panic |-> FALSE]

\* Cpu::rst(val): push(pc), then PC = val
rst(r, m, val, checks) ==
    LET t == push(r, m, r.pc, checks)
    IN  IF t.mem.panicked THEN t ELSE [t EXCEPT !.regs.pc = val]

\* the conditions of the conditional arms of execute: NZ, Z, NC, C
cc_holds(r, opcode) ==
    CASE opcode \in { \hC0, \hC2, \hC4, \h20 } -> ~isset_flag(r, FLAG_ZERO)
      [] opcode \in { \hC8, \hCA, \hCC, \h28 } -> isset_flag(r, FLAG_ZERO)
      [] opcode \in { \hD0, \hD2, \hD4, \h30 } -> ~isset_flag(r, FLAG_CARRY)
      [] opcode \in { \hD8, \hDA, \hDC, \h38 } -> isset_flag(r, FLAG_CARRY)

\* the result of an arm of execute: [regs, mem, cpu, cycles]; mem.panicked
\* is set when the arm panics
arm_result(r, m, c, n) == [regs |-> r, mem |-> m, cpu |-> c, cycles |-> n]

arm_panic(r, m, c) == arm_result(r, [m EXCEPT !.panicked = TRUE], c, 0)

\* 0xCD: let value = self.fetch_word(); self.call(value); 6
arm_call(r, m, c, checks) ==
    LET fw == fetch_word(r, m, checks)
    IN  IF fw.val = Panic THEN arm_panic(r, m, c)
        ELSE LET t == call(fw.regs, m, fw.val, checks)
             IN  arm_result(t.regs, t.mem, c, 6)

\* 0xC4, 0xCC, 0xD4, 0xDC: the operand is fetched, then the call is made when
\* the condition holds
arm_call_cc(r, m, c, opcode, checks) ==
    LET fw == fetch_word(r, m, checks)
    IN  IF fw.val = Panic THEN arm_panic(r, m, c)
        ELSE IF cc_holds(r, opcode)
        THEN LET t == call(fw.regs, m, fw.val, checks)
             IN  arm_result(t.regs, t.mem, c, 6)
        ELSE arm_result(fw.regs, m, c, 3)

\* 0xC9: self.ret(); 2
arm_ret(r, m, c, checks) ==
    LET t == ret(r, m, checks)
    IN  IF t.panic THEN arm_panic(r, m, c) ELSE arm_result(t.regs, m, c, 2)

\* 0xC0, 0xC8, 0xD0, 0xD8
arm_ret_cc(r, m, c, opcode, checks) ==
    IF cc_holds(r, opcode)
    THEN LET t == ret(r, m, checks)
         IN  IF t.panic THEN arm_panic(r, m, c) ELSE arm_result(t.regs, m, c, 5)
    ELSE arm_result(r, m, c, 2)

\* 0xD9: self.ret(); self.interrupts = true; 4
arm_reti(r, m, c, checks) ==
    LET t == ret(r, m, checks)
    IN  IF t.panic THEN arm_panic(r, m, c)
        ELSE arm_result(t.regs, m, [c EXCEPT !.interrupts = TRUE], 4)

\* 0x10 (STOP) and 0x76 (HALT): self.enabled = false; 1
arm_halt(r, m, c) == arm_result(r, m, [c EXCEPT !.enabled = FALSE], 1)

\* 0xF3 (DI) and 0xFB (EI)
arm_di(r, m, c) == arm_result(r, m, [c EXCEPT !.interrupts = FALSE], 1)

arm_ei(r, m, c) == arm_result(r, m, [c EXCEPT !.interrupts = TRUE], 1)

\* 0xC7, 0xCF, ..., 0xFF: self.rst(opcode & 0x38); 2
arm_rst(r, m, c, opcode, checks) ==
    LET t == rst(r, m, BitAnd(opcode, \h38), checks)
    IN  arm_result(t.regs, t.mem, c, 2)

\* the opcodes whose arms of execute are carried with their effect on the
\* state; ExecutedCycles carries the returned count of every arm
get_bc(r) == BitOr(r.c, r.b * 256)

set_bc(r, val) == [r EXCEPT !.b = val \div 256, !.c = val % 256]

get_de(r) == BitOr(r.e, r.d * 256)

\* dec16: Wrapping(value) - Wrapping(1u16)
dec16(value) == (value + U16 - 1) % U16

\* The rotates and shifts return [regs, val]: the Registers with the flags
\* they leave, and the byte they return.

\* rlc: bit 7 goes to Carry and to bit 0
rlc(r, val) ==
    LET temp == val * 2
    IN  IF BitAnd(temp, \h100) = \h100
        THEN [ regs |-> clear_flag(toggle_flag(r, FLAG_CARRY), FLAG_ZERO),
               val  |-> BitOr(temp % U8, 1) ]
        ELSE [ regs |-> toggle_zero_flag(clear_flag(r, FLAG_CARRY), temp % U8),
               val  |-> temp % U8 ]

\* rl: bit 7 goes to Carry, the previous Carry to bit 0
rl(r, val) ==
    LET carry  == IF isset_flag(r, FLAG_CARRY) THEN 1 ELSE 0
        temp   == val * 2
        r1     == IF BitAnd(temp, \h100) = \h100
                  THEN toggle_flag(r, FLAG_CARRY) ELSE clear_flag(r, FLAG_CARRY)
        result == BitOr(temp % U8, carry)
    IN  [ regs |-> toggle_zero_flag(r1, result), val |-> result ]

\* rrc: bit 0 goes to Carry and to bit 7
rrc(r, val) ==
    IF val % 2 = 1
    THEN [ regs |-> clear_flag(toggle_flag(r, FLAG_CARRY), FLAG_ZERO),
           val  |-> BitOr(val \div 2, \h80) ]
    ELSE [ regs |-> toggle_zero_flag(clear_flag(r, FLAG_CARRY), val \div 2),
           val  |-> val \div 2 ]

\* rr: bit 0 goes to Carry, the previous Carry to bit 7
rr(r, val) ==
    LET h      == IF isset_flag(r, FLAG_CARRY) THEN \h80 ELSE 0
        r1     == IF val % 2 = 1
                  THEN toggle_flag(r, FLAG_CARRY) ELSE clear_flag(r, FLAG_CARRY)
        result == BitOr(val \div 2, h)
    IN  [ regs |-> toggle_zero_flag(r1, result), val |-> result ]

rlca(r) ==
    LET x == rlc(r, r.a) IN clear_flag([x.regs EXCEPT !.a = x.val], FLAG_ZERO)

rla(r) ==
    LET x == rl(r, r.a) IN clear_flag([x.regs EXCEPT !.a = x.val], FLAG_ZERO)

rrca(r) ==
    LET x == rrc(r, r.a) IN clear_flag([x.regs EXCEPT !.a = x.val], FLAG_ZERO)

rra(r) ==
    LET x == rr(r, r.a) IN clear_flag([x.regs EXCEPT !.a = x.val], FLAG_ZERO)

\* sla: toggle_carry_flag sets Carry from bit 8 of the result and does not
\* clear it
sla(r, val) ==
    LET result      == val * 2
        byte_result == result % U8
    IN  [ regs |-> clear_flag(clear_flag(
                       toggle_zero_flag(toggle_carry_flag(r, result), byte_result),
                       FLAG_HALF), FLAG_SUB),
          val  |-> byte_result ]

\* the flags sra and srl leave: H and N cleared, Z set for a zero result,
\* Carry from bit 0 of val
shift_right_flags(r, val, result) ==
    LET r1 == toggle_zero_flag(clear_flag(clear_flag(r, FLAG_HALF), FLAG_SUB), result)
    IN  IF val % 2 = 0 THEN clear_flag(r1, FLAG_CARRY) ELSE toggle_flag(r1, FLAG_CARRY)

sra(r, val) ==
    LET result == BitOr(val \div 2, BitAnd(val, \h80))
    IN  [ regs |-> shift_right_flags(r, val, result), val |-> result ]

srl(r, val) ==
    LET result == val \div 2
    IN  [ regs |-> shift_right_flags(r, val, result), val |-> result ]

\* add_sp, which no arm of execute calls
add_sp(r, value) ==
    LET signed_value == IF value >= 128 THEN value - U8 ELSE value
        new_sp_value == (r.sp + signed_value + U16) % U16
        r1 == toggle_half_flag(r, new_sp_value)
        r2 == IF \/ new_sp_value < r.sp /\ value < 128
                 \/ new_sp_value > r.sp /\ value >= 128
              THEN toggle_flag(r1, FLAG_CARRY) ELSE r1
    IN  [r2 EXCEPT !.sp = new_sp_value]

\* the arms 0x07, 0x0F, 0x17, 0x1F: RLCA, RRCA, RLA, RRA
arm_rotate_a(r, m, c, opcode) ==
    arm_result(CASE opcode = \h07 -> rlca(r)
                 [] opcode = \h0F -> rrca(r)
                 [] opcode = \h17 -> rla(r)
                 [] opcode = \h1F -> rra(r),
               m, c, 1)

\* the arm 0x1B
arm_dec_de(r, m, c) == arm_result(set_bc(r, dec16(get_bc(r))), m, c, 2)

\* the arm 0x37
arm_scf(r, m, c) == arm_result(toggle_flag(r, FLAG_HALF), m, c, 1)

\* the arm 0x3F
arm_ccf(r, m, c) == arm_result(ccf(r), m, c, 1)

\* the arm 0xE8: sp.wrapping_add(val as u16)
arm_add_sp(r, m, c) ==
    LET fb == fetch_byte(r, m)
    IN  IF fb.val = Panic THEN arm_panic(r, m, c)
        ELSE arm_result([fb.regs EXCEPT !.sp = (fb.regs.sp + fb.val) % U16], m, c, 2)

\* the arms of cb_execute that rotate and shift A
CbArmOpcodes == { \h07, \h0F, \h17, \h1F, \h27, \h2F, \h3F }

\* Cpu::cb_execute: the second opcode byte is fetched, then its arm runs
cb_execute(r, m, c) ==
    LET fb == fetch_byte(r, m)
        opcode == fb.val
        r1 == fb.regs
        x == CASE opcode = \h07 -> rlc(r1, r1.a)
               [] opcode = \h0F -> rrc(r1, r1.a)
               [] opcode = \h17 -> rl(r1, r1.a)
               [] opcode = \h1F -> rr(r1, r1.a)
               [] opcode = \h27 -> sla(r1, r1.a)
               [] opcode = \h2F -> sra(r1, r1.a)
               [] opcode = \h3F -> srl(r1, r1.a)
    IN  IF opcode = Panic THEN arm_panic(r, m, c)
        ELSE arm_result([x.regs EXCEPT !.a = x.val], m, c, 2)

ArmOpcodes ==
    { \h00, \h10, \h76, \hCD, \hC4, \hCC, \hD4, \hDC, \hC9, \hC0, \hC8, \hD0,
      \hD8, \hD9, \hF3, \hFB, \hC7, \hCF, \hD7, \hDF, \hE7, \hEF, \hF7, \hFF,
      \h07, \h0F, \h17, \h1F, \h1B, \h37, \h3F, \hCB, \hE8 }

\* the opcodes no arm of execute matches: they reach the default arm,
\* panic!("Instruction {:2X} is not implemented")
UndefinedOpcodes ==
    { \hD3, \hDB, \hDD, \hE3, \hE4, \hEB, \hEC, \hED, \hF4, \hFC, \hFD }

\* the opcodes whose way through execute is modelled
ExecOpcodes == ArmOpcodes \cup UndefinedOpcodes

\* the bytes at pc say an instruction whose way through execute is modelled,
\* or the fetch of the opcode, or of the second byte of a CB instruction,
\* panics
ExecModelled(r, m) ==
    /\ mem_read8(m, r.pc) \in ExecOpcodes \cup { Panic }
    /\ mem_read8(m, r.pc) = \hCB =>
           mem_read8(m, (r.pc + 1) % U16) \in CbArmOpcodes \cup { Panic }

\* Cpu::execute: the opcode is fetched, then its arm runs
execute(r, m, c, checks) ==
    LET fb == fetch_byte(r, m)
        opcode == fb.val
        r1 == fb.regs
    IN  CASE opcode = Panic -> arm_panic(r, m, c)
          [] opcode = \h00 -> arm_result(r1, m, c, 1)
          [] opcode \in { \h10, \h76 } -> arm_halt(r1, m, c)
          [] opcode = \hCD -> arm_call(r1, m, c, checks)
          [] opcode \in { \hC4, \hCC, \hD4, \hDC } -> arm_call_cc(r1, m, c, opcode, checks)
          [] opcode = \hC9 -> arm_ret(r1, m, c, checks)
          [] opcode \in { \hC0, \hC8, \hD0, \hD8 } -> arm_ret_cc(r1, m, c, opcode, checks)
          [] opcode = \hD9 -> arm_reti(r1, m, c, checks)
          [] opcode = \hF3 -> arm_di(r1, m, c)
          [] opcode = \hFB -> arm_ei(r1, m, c)
          [] opcode \in { \hC7, \hCF, \hD7, \hDF, \hE7, \hEF, \hF7, \hFF }
                 -> arm_rst(r1, m, c, opcode, checks)
          [] opcode \in { \h07, \h0F, \h17, \h1F } -> arm_rotate_a(r1, m, c, opcode)
          [] opcode = \h1B -> arm_dec_de(r1, m, c)
          [] opcode = \h37 -> arm_scf(r1, m, c)
          [] opcode = \h3F -> arm_ccf(r1, m, c)
          [] opcode = \hCB -> cb_execute(r1, m, c)
          [] opcode = \hE8 -> arm_add_sp(r1, m, c)
          [] opcode \in UndefinedOpcodes -> arm_panic(r1, m, c)

\* --- Cpu::cycle ----------------------------------------------------------------
\* Console::cycle calls self.cpu.cycle(); that method is not in cpu.rs.  It
\* is written here from the description of the Console cycle and of the CPU
\* contract (service_interrupts, step), on top of execute, push, Ppu::cycle,
\* Timer::cycle and the interrupt() accessors of the source.

\* IE & IF, the five interrupt lines
pending_interrupts(con) == BitAnd(BitAnd(con.ie, con.iflag), \h1F)

\* the number of the lowest line set in pending: V-Blank 0, STAT 1, Timer 2,
\* Serial 3, Joypad 4
lowest_line(pending) ==
    CHOOSE i \in 0 .. 4 :
        /\ BitAnd(pending, 2 ^ i) # 0
        /\ \A j \in 0 .. 4 : j < i => BitAnd(pending, 2 ^ j) = 0

\* service_interrupts(pending): [regs, mem, cpu, console, cycles]; 5 cycles
\* when an interrupt is serviced, else 0
service_interrupts(r, m, c, con, checks) ==
    LET pending == pending_interrupts(con)
    IN  IF c.interrupts /\ pending # 0
        THEN LET i == lowest_line(pending)
                 t == push(r, m, r.pc, checks)
             IN  IF t.mem.panicked
                 THEN [regs |-> r, mem |-> t.mem, cpu |-> c, console |-> con, cycles |-> 0]
                 ELSE [regs |-> [t.regs EXCEPT !.pc = \h40 + 8 * i],
                       mem |-> t.mem,
                       cpu |-> [c EXCEPT !.interrupts = FALSE],
                       console |-> [con EXCEPT !.iflag = @ - 2 ^ i],
                       cycles |-> 5]
        ELSE [regs |-> r, mem |-> m, cpu |-> c, console |-> con, cycles |-> 0]

\* the CPU part of a cycle: [regs, mem, cpu, console, cycles, kind].  The
\* flag enabled is consulted first (HALT and STOP clear it): a CPU that is
\* not enabled fetches nothing until a bit of IE & IF is set, which enables
\* it again; an enabled CPU services an interrupt or executes an instruction
cpu_part(r, m, c, con, checks) ==
    LET pending == pending_interrupts(con)
        c1 == IF ~c.enabled /\ pending # 0 THEN [c EXCEPT !.enabled = TRUE] ELSE c
    IN  IF ~c1.enabled
        THEN [regs |-> r, mem |-> m, cpu |-> c1, console |-> con, cycles |-> 1,
              kind |-> "idle"]
        ELSE IF c1.interrupts /\ pending # 0
        THEN [kind |-> "service"] @@ service_interrupts(r, m, c1, con, checks)
        ELSE [kind |-> "execute", console |-> con] @@ execute(r, m, c1, checks)

\* Timer::cycle called k times
RECURSIVE timer_cycles(_, _)
timer_cycles(t, k) == IF k = 0 THEN t ELSE timer_cycles(timer_cycle(t), k - 1)

\* the peripheral part of a cycle after n M-cycles: ppu.cycle(4n), the
\* timer brought forward by 4n ticks (Timer::cycle stands for TICKS ticks),
\* then the interrupt lines OR-ed into IF and the latch of each peripheral
\* cleared: the fields inter of Ppu and JoypadState (Timer holds no latch)
peripheral_part(m, con, n, checks) ==
    LET pr == ppu_cycle(m.ppu, 4 * n, checks)
        tt1 == con.tt + 4 * n
        t1 == timer_cycles(m.timer, tt1 \div TICKS)
        lines == BitOr(BitOr(ppu_interrupt(pr.ppu), timer_interrupt(t1)),
                       joypad_interrupt(m.joy))
    IN  [mem |-> [m EXCEPT !.ppu = [pr.ppu EXCEPT !.inter = 0],
                           !.timer = t1,
                           !.joy = [m.joy EXCEPT !.inter = 0],
                           !.panicked = m.panicked \/ pr.panic],
         console |-> [con EXCEPT !.iflag = BitOr(@, lines), !.tt = tt1 % TICKS]]

\* Cpu::cycle, one Console cycle: [regs, mem, cpu, console, cycles, kind, cpu_if]
\* (cpu_if is IF after the CPU part, before the lines are OR-ed in)
cycle_result(a, b) ==
    [regs |-> a.regs, mem |-> b.mem, cpu |-> a.cpu, console |-> b.console,
     cycles |-> a.cycles, kind |-> a.kind, cpu_if |-> a.console.iflag]

cycle_after_cpu(a, checks) ==
    IF a.mem.panicked THEN cycle_result(a, a)
    ELSE CHOOSE t \in { cycle_result(a, b) :
                            b \in { peripheral_part(a.mem, a.console, a.cycles, checks) } } : TRUE

cpu_cycle(r, m, c, con, checks) ==
    CHOOSE t \in { cycle_after_cpu(a, checks) : a \in { cpu_part(r, m, c, con, checks) } } : TRUE

---------------------------------------------------------------------------
(* Joypad operations as actions                                            *)

JoyFrame == UNCHANGED << timer, ppu, ram, hram, cartridge, panicked,
                         t_last, t_calls, t_writes, t_since_div, t_prev, t_val, t_mode,
                         mem_hist, ppu_hist, overflow_checks, cpu_vars >>

\* select Action, select Direction, both select bits clear, both set
JoyWriteVals == { \hDF, \hEF, \hCF, \hFF }

JWrite(v) ==
    /\ joy' = joypad_write(joy, v)
    /\ j_last' = [op |-> "write", val |-> v, before |-> joy]
    /\ JoyFrame

JSetButton(i, pressed) ==
    /\ joy' = joypad_set_button(joy, i, pressed)
    /\ j_last' = [op |-> "set_button", idx |-> i, pressed |-> pressed, before |-> joy]
    /\ JoyFrame

---------------------------------------------------------------------------
(* Memory operations as actions                                            *)

MemFrame == UNCHANGED << timer_hist, j_last, ppu_hist, overflow_checks, cpu_vars >>

\* The writes of the memory specification, as (address, byte): the first and
\* last byte of each 4 KiB half of Work RAM and of its echo, and one address in
\* each other region the dispatch tells apart.
MemWrites ==
    { << \h0000, \h5A >>, << \h8000, \h5A >>, << \hA000, \h5A >>,
      << \hC000, \h5A >>, << \hCFFF, \h5A >>, << \hD000, \hA5 >>,
      << \hDDFF, \hA5 >>, << \hDFFF, \hA5 >>,
      << \hE000, \hA5 >>, << \hF000, \h5A >>, << \hFDFF, \h5A >>,
      << \hFE9F, \h5A >>, << \hFF42, \h5A >>, << \hFF80, \h5A >>,
      << \hFFFF, \h5A >> }

MemAddrs == { w[1] : w \in MemWrites }

\* every source page of the OAM DMA
DmaPages == 0 .. 255

SetMem(m) ==
    /\ ram' = m.ram
    /\ hram' = m.hram
    /\ cartridge' = m.cartridge
    /\ joy' = m.joy
    /\ timer' = m.timer
    /\ ppu' = m.ppu
    /\ panicked' = m.panicked

\* write8(addr, val) at an address other than the DMA register
MWrite8(addr, val) ==
    /\ ~panicked
    /\ m_writes < MaxMemWrites
    /\ SetMem(mem_write8(Mem, addr, val))
    /\ m_last' = [op |-> "write8", addr |-> addr, val |-> val, pre |-> Mem]
    /\ m_writes' = m_writes + 1
    /\ UNCHANGED << m_dma, m_reads >>
    /\ MemFrame

\* write8(0xFF46, page): the OAM DMA, once in a behaviour
MDma(page) ==
    /\ ~panicked
    /\ ~m_dma
    /\ SetMem(mem_write8(Mem, \hFF46, page))
    /\ m_last' = [op |-> "dma", addr |-> \hFF46, val |-> page, pre |-> Mem]
    /\ m_dma' = TRUE
    /\ UNCHANGED << m_writes, m_reads >>
    /\ MemFrame

---------------------------------------------------------------------------
(* Initial states and specifications                                       *)

\* the length of a ROM image that fills the window 0x0000..=0x7FFF of read8
ROM_LEN == \h7FFF + 1

\* a ROM image of 32 KiB with bytes at the start and end of the DMA window of
\* pages 0x00 and 0x7F, and one just past it
RomImage ==
    [ data |-> [a \in {\h0000, \h009F, \h00A0, \h7F00, \h7F9F} |-> 1 + (a % 251)],
      len |-> ROM_LEN ]

\* Memory::default(), Timer::default(), JoypadState::default(), Ppu::default().
\* Memory::default() boxes a NoCartridge, a type cartridge.rs does not define;
\* the cartridge of the model is the one the source defines, NoMapperCartridge,
\* over a ROM image of ROM_LEN bytes (Init, InitTimer, InitMem).
InitState ==
    /\ timer = DefaultTimer
    /\ joy = DefaultJoypad
    /\ ppu = DefaultPpu
    /\ ram = ZeroArray
    /\ hram = ZeroArray
    /\ panicked = FALSE
    /\ t_last = "new"
    /\ t_calls = 0
    /\ t_writes = 0
    /\ t_since_div = -1
    /\ t_prev = DefaultTimer
    /\ t_val = -1
    /\ j_last = [op |-> "new"]
    /\ m_last = [op |-> "new"]
    /\ m_writes = 0
    /\ m_dma = FALSE
    /\ m_reads = 0
    /\ p_last = [op |-> "new"]
    /\ p_win = [fed |-> -1, vblanks |-> 0, ly0 |-> 0]
    /\ p_calls = 0
    /\ p_writes = 0
    /\ c_last = [op |-> "new"]
    /\ c_ops = 0
    /\ cpu = DefaultCpu
    /\ console = DefaultConsole

Init ==
    /\ InitState
    /\ regs = DefaultRegisters
    /\ overflow_checks = TRUE
    /\ p_phase = "ops"
    /\ cartridge = [data |-> ZeroArray, len |-> ROM_LEN]
    /\ t_mode = "ops"

InitMem ==
    /\ InitState
    /\ regs = DefaultRegisters
    /\ overflow_checks = TRUE
    /\ p_phase = "ops"
    /\ cartridge = RomImage
    /\ t_mode = "ops"

\* --- the timer ----------------------------------------------------------------
\* A timer run takes one of two shapes.  In a "run" the timer is configured
\* before the first cycle() call, as in test_divider and test_timer, and then
\* cycled up to MaxRunCalls times, with at most one write_div on the way.  In
\* an "ops" run writes and cycle() calls interleave freely, up to MaxCalls
\* calls and MaxTimerWrites writes.

RunTacVals == { 1, 5 }

RunSetup ==
    /\ t_mode = "run"
    /\ t_calls = 0
    /\ t_writes < MaxSetupWrites
    /\ \/ TWriteDiv(\h42)
       \/ TWriteTima(0)
       \/ TWriteTma(\h42)
       \/ \E v \in RunTacVals : TWriteTac(v)

RunCycle ==
    /\ t_mode = "run"
    /\ t_calls < MaxRunCalls
    /\ TCycle

\* write_div during the run, within the first DIV period
RunWriteDiv ==
    /\ t_mode = "run"
    /\ t_calls > 0
    /\ t_calls <= TICKS
    /\ t_since_div = -1
    /\ TWriteDiv(\h42)

TacVals  == 0 .. 7
TimaVals == { 0, \hFE, \hFF }
TmaVals  == { \h42, \hFF }

OpsWrite ==
    /\ t_mode = "ops"
    /\ t_writes < MaxTimerWrites
    /\ \/ TWriteDiv(\h42)
       \/ \E v \in TimaVals : TWriteTima(v)
       \/ \E v \in TmaVals : TWriteTma(v)
       \/ \E v \in TacVals : TWriteTac(v)

OpsCycle ==
    /\ t_mode = "ops"
    /\ t_calls < MaxCalls
    /\ TCycle

InitTimer ==
    /\ InitState
    /\ regs = DefaultRegisters
    /\ overflow_checks = TRUE
    /\ p_phase = "ops"
    /\ cartridge = [data |-> ZeroArray, len |-> ROM_LEN]
    /\ t_mode \in { "run", "ops" }

NextTimer == RunSetup \/ RunCycle \/ RunWriteDiv \/ OpsWrite \/ OpsCycle

SpecTimer == InitTimer /\ [][NextTimer]_vars

\* --- the joypad --------------------------------------------------------------

NextJoy ==
    \/ \E v \in JoyWriteVals : JWrite(v)
    \/ \E i \in 0 .. 7, b \in BOOLEAN : JSetButton(i, b)

SpecJoy == Init /\ [][NextJoy]_vars

\* --- the memory --------------------------------------------------------------

NextMem ==
    \/ \E w \in MemWrites : MWrite8(w[1], w[2])
    \/ \E x \in DmaPages : MDma(x)

SpecMem == InitMem /\ [][NextMem]_vars

---------------------------------------------------------------------------
(* Claims about the timer, under SpecTimer                                 *)

\* the last Timer method called was cycle(), on the timer t_prev
Cycled == t_last = "cycle"

\* C1: with the timer enabled and clock select 01 (step 16), every cycle()
\* call increments TIMA by exactly one, and a call that finds TIMA at 0xFF
\* sets it to the current TMA instead; configured with TIMA 0, TMA 0x42 and
\* write_tac(0b101), TIMA is 0xFF after the 255th call and 0x42 after the 256th.
C1_TimaCountsAtStep16 ==
    /\ (Cycled /\ t_prev.enabled /\ t_prev.step = 16) =>
           timer.tima = IF t_prev.tima = 255 THEN t_prev.tma ELSE t_prev.tima + 1
    /\ (t_mode = "run" /\ timer.enabled /\ timer.step = 16 /\ timer.tma = \h42) =>
           /\ (t_calls = 255 => timer.tima = \hFF)
           /\ (t_calls = 256 => timer.tima = \h42)

\* C1 witness: the 256th call of the configured run has reloaded TIMA from TMA
C1_Witness ==
    /\ t_mode = "run" /\ Cycled /\ t_calls = 256
    /\ t_prev.enabled /\ t_prev.step = 16 /\ t_prev.tima = \hFF
    /\ timer.tima = \h42

\* C2: a cycle() call in which TIMA overflows from 0xFF leaves the Timer bit
\* (bit 2) set in the timer's pending-interrupt byte, and a call in which TIMA
\* does not overflow does not set it.
C2_OverflowRaisesInterrupt ==
    Cycled => (Bit(timer_interrupt(timer), 2) = 1 <=> TimaOverflows(t_prev))

\* C3: while the timer is disabled, a cycle() call leaves TIMA unchanged, for
\* every clock select and every TIMA and TMA.
C3_DisabledKeepsTima ==
    (Cycled /\ ~t_prev.enabled) => timer.tima = t_prev.tima

\* C3 witness: ten calls on a disabled timer at clock select 00 with TIMA 0xFE
C3_Witness ==
    /\ Cycled /\ ~t_prev.enabled /\ t_prev.step = 1024
    /\ t_calls >= 10 /\ timer.tima = \hFE /\ timer.tma = \hFF

\* C4: DIV increments by one, wrapping from 0xFF to 0x00, on every 16th
\* cycle() call and on no other, whether the timer is enabled or not; 256
\* calls after a write_div, DIV is 16.
C4_DivEvery16Calls ==
    /\ timer.internal_div \in { TICKS * k : k \in 0 .. 15 }
    /\ Cycled =>
           timer.div = IF t_prev.internal_div = DIVIDER_PERIOD - TICKS
                       THEN (t_prev.div + 1) % 256 ELSE t_prev.div
    /\ t_since_div = -1 => timer.div = (24 + (t_calls \div 16)) % 256
    /\ t_since_div = 256 => timer.div = 16

\* C4 witness: the 256th call after a write_div made in the middle of a DIV
\* period, on an enabled timer
C4_Witness ==
    /\ Cycled /\ t_since_div = 256 /\ t_calls > 256
    /\ timer.enabled /\ timer.div = 16 /\ t_prev.div = 15

\* C5: write_div(v) sets DIV to 0 and the internal DIV accumulator to 0, so
\* DIV stays 0 for the next 15 cycle() calls and becomes 1 on the 16th,
\* however many calls came before the write.
C5_WriteDivResetsPrescaler ==
    /\ t_last = "write_div" => (timer.div = 0 /\ timer.internal_div = 0)
    /\ (t_since_div >= 0 /\ t_since_div < 16) => timer.div = 0
    /\ t_since_div = 16 => timer.div = 1

---------------------------------------------------------------------------
(* Claims about the joypad, under SpecJoy                                  *)

\* the buttons of a row in the order of their bits, low to high
ActionRow    == << A_IDX, B_IDX, SELECT_IDX, START_IDX >>
DirectionRow == << RIGHT_IDX, LEFT_IDX, UP_IDX, DOWN_IDX >>

SelectedRow(j)   == IF j.button_selection = "Action" THEN ActionRow ELSE DirectionRow
UnselectedRow(j) == IF j.button_selection = "Action" THEN DirectionRow ELSE ActionRow

\* j with the buttons of its unselected row set to b[1] .. b[4]
WithUnselected(j, b) ==
    [j EXCEPT !.buttons =
        [i \in 0 .. 7 |->
            IF \E k \in 1 .. 4 : UnselectedRow(j)[k] = i
            THEN b[CHOOSE k \in 1 .. 4 : UnselectedRow(j)[k] = i]
            ELSE j.buttons[i]]]

\* C6: read() returns in bits 0..3 the buttons of the selected row, 0 for
\* pressed and 1 for released, in the order (A, B, Select, Start) for Action
\* and (Right, Left, Up, Down) for Direction, with bits 7 and 6 set; the
\* buttons of the unselected row contribute 1s only: whatever their state, the
\* result is the same.
C6_ReadSelectedRow ==
    LET r == joypad_read(joy)
    IN  /\ \A k \in 1 .. 4 :
               Bit(r, k - 1) = IF joy.buttons[SelectedRow(joy)[k]] THEN 0 ELSE 1
        /\ Bit(r, 7) = 1
        /\ Bit(r, 6) = 1
        /\ \A b \in [1 .. 4 -> BOOLEAN] : joypad_read(WithUnselected(joy, b)) = r

\* C6 witness: Direction selected after a write, Up pressed, A and Start
\* pressed in the unselected row: read() is 0b1100_1011
C6_Witness ==
    /\ joy.button_selection = "Direction"
    /\ joy.buttons = [i \in 0 .. 7 |-> i \in {UP_IDX, A_IDX, START_IDX}]
    /\ j_last.op = "write"
    /\ joypad_read(joy) = \hCB

\* C7: a transition of a button from not pressed to pressed leaves the joypad
\* bit (0x10) set in interrupt(); any other change of a button leaves
\* interrupt() as it was.
C7_PressRaisesInterrupt ==
    j_last.op = "set_button" =>
        LET newly == j_last.pressed /\ ~j_last.before.buttons[j_last.idx]
        IN  /\ newly => BitAnd(joypad_interrupt(joy), JOYPAD_INTERRUPT) = JOYPAD_INTERRUPT
            /\ ~newly => joypad_interrupt(joy) = joypad_interrupt(j_last.before)

---------------------------------------------------------------------------
(* Claims about the memory, under SpecMem                                  *)

Wrote8 == m_last.op = "write8" /\ ~panicked
DidDma == m_last.op = "dma" /\ ~panicked

WorkRam == \hC000 .. \hDFFF

\* C8: a byte written at 0xE000+i is read back at 0xC000+i, and a byte
\* written at 0xC000+i is read back at 0xE000+i, for i in 0..0x1DFF: after
\* every write made in a behaviour, and for a write at every i to the memory
\* as constructed.
C8_EchoMirrorsWorkRam ==
    /\ Wrote8 =>
           /\ (m_last.addr >= \hE000 /\ m_last.addr <= \hFDFF) =>
                  mem_read8(Mem, m_last.addr - \h2000) = m_last.val
           /\ (m_last.addr >= \hC000 /\ m_last.addr <= \hDDFF) =>
                  mem_read8(Mem, m_last.addr + \h2000) = m_last.val
    /\ m_last.op = "new" =>
           \A i \in 0 .. \h1DFF :
               /\ mem_read8(mem_write8(Mem, \hE000 + i, \h5A), \hC000 + i) = \h5A
               /\ mem_read8(mem_write8(Mem, \hC000 + i, \hA5), \hE000 + i) = \hA5

\* C8 witness: a write at 0xF000 (i = 0x1000) is read back at 0xD000
C8_Witness ==
    /\ Wrote8
    /\ m_last.addr = \hF000
    /\ m_last.val = \h5A
    /\ mem_read8(m_last.pre, \hD000) = 0
    /\ mem_read8(Mem, \hD000) = \h5A

\* C9: a write at a Work RAM address a leaves the byte read at every other
\* Work RAM address b unchanged.
C9_WorkRamBytesIndependent ==
    (Wrote8 /\ m_last.addr \in WorkRam) =>
        \A b \in (MemAddrs \cap WorkRam) \ {m_last.addr} :
            mem_read8(Mem, b) = mem_read8(m_last.pre, b)

\* the memory outside OAM
OutsideOam(m) == [m EXCEPT !.ppu.oam = ZeroArray]

\* C10: after a write of X at 0xFF46, for every i in 0..159 the byte read at
\* 0xFE00+i is the byte that was read at X*0x100+i before the write, and
\* nothing outside OAM has changed.
C10_DmaCopiesPage ==
    DidDma =>
        /\ \A i \in 0 .. 159 :
               mem_read8(Mem, \hFE00 + i) = mem_read8(m_last.pre, m_last.val * 256 + i)
        /\ OutsideOam(Mem) = OutsideOam(m_last.pre)

\* C10 witness: a DMA from page 0xC0 has brought the byte written at 0xC000
\* into OAM
C10_Witness ==
    /\ DidDma
    /\ m_last.val = \hC0
    /\ mem_read8(m_last.pre, \hC000) = \h5A
    /\ mem_read8(m_last.pre, \hFE00) = 0
    /\ mem_read8(Mem, \hFE00) = \h5A

---------------------------------------------------------------------------
(* The 16-bit accessors of Memory, under SpecMem16                         *)

\* addresses of 16-bit accesses: inside a region, across the boundaries of
\* regions, before the object palette registers, and the last two addresses
MemAddrs16 ==
    { \h0000, \h009F, \h7FFF, \hC000, \hDFFF, \hFDFF, \hFE9F,
      \hFF05, \hFF47, \hFF80, \hFFFE, \hFFFF }

MemVals16 == { \h1234, \hA55A }

\* read16(addr)
MRead16(addr) ==
    /\ ~panicked
    /\ m_reads < MaxMemReads
    /\ LET r == mem_read16(Mem, addr, overflow_checks)
       IN  /\ m_last' = [op |-> "read16", addr |-> addr, val |-> r, pre |-> Mem]
           /\ panicked' = (r = Panic)
    /\ m_reads' = m_reads + 1
    /\ UNCHANGED << ram, hram, cartridge, joy, timer, ppu, m_writes, m_dma >>
    /\ MemFrame

\* write16(addr, val)
MWrite16(addr, val) ==
    /\ ~panicked
    /\ m_writes < MaxMemWrites
    /\ SetMem(mem_write16(Mem, addr, val, overflow_checks))
    /\ m_last' = [op |-> "write16", addr |-> addr, val |-> val, pre |-> Mem]
    /\ m_writes' = m_writes + 1
    /\ UNCHANGED << m_dma, m_reads >>
    /\ MemFrame

\* the build is either profile
InitMem16 ==
    /\ InitState
    /\ regs = DefaultRegisters
    /\ p_phase = "ops"
    /\ overflow_checks \in BOOLEAN
    /\ cartridge = RomImage
    /\ t_mode = "ops"

NextMem16 ==
    \/ \E w \in MemWrites : MWrite8(w[1], w[2])
    \/ \E a \in MemAddrs16 : MRead16(a)
    \/ \E a \in MemAddrs16, v \in MemVals16 : MWrite16(a, v)

SpecMem16 == InitMem16 /\ [][NextMem16]_vars

\* C11: read16(addr) and write16(addr, v) complete without a panic for every
\* addr, 0xFFFF included; read16 returns read8(addr) | read8(addr+1) << 8 and
\* write16 leaves the memory as write8(addr, low byte) followed by
\* write8(addr+1, high byte) leave it, addr+1 taken in 16 bits.
C11_Access16Total ==
    /\ m_last.op = "read16" =>
           /\ ~panicked
           /\ m_last.val = mem_read8(m_last.pre, m_last.addr)
                           + 256 * mem_read8(m_last.pre, (m_last.addr + 1) % U16)
    /\ m_last.op = "write16" =>
           /\ ~panicked
           /\ Mem = mem_write8(mem_write8(m_last.pre, m_last.addr, m_last.val % 256),
                               (m_last.addr + 1) % U16, m_last.val \div 256)

\* C11 witness of the divergence: read16(0xFFFF) has panicked in a build with
\* overflow checks
C11_Witness ==
    /\ m_last.op = "read16"
    /\ m_last.addr = \hFFFF
    /\ overflow_checks
    /\ panicked

---------------------------------------------------------------------------
(* The Ppu: register writes through Memory.write8 and Ppu.cycle, SpecPpu   *)

\* dots of one frame: (ROWS + VBLANK_ROWS) lines of LINE_TICKS dots
FRAME_TICKS == (ROWS + VBLANK_ROWS) * LINE_TICKS

PpuFrame ==
    UNCHANGED << timer_hist, j_last, mem_hist, p_phase, overflow_checks, cpu_vars >>

\* Register writes: LCDC (LCD on, LCD off), STAT (each enable bit, all, none),
\* LY, LYC, OBP0, OBP1
PpuWrites ==
    { << \hFF40, \h80 >>, << \hFF40, \h00 >>,
      << \hFF41, \h00 >>, << \hFF41, \h08 >>, << \hFF41, \h10 >>,
      << \hFF41, \h20 >>, << \hFF41, \h40 >>, << \hFF41, \hFF >>,
      << \hFF44, \h5A >>, << \hFF45, 1 >>, << \hFF45, 144 >>,
      << \hFF48, \hE4 >>, << \hFF49, \h1B >> }

\* the register writes that set up the Ppu before a frame is fed: LCD on, each
\* STAT enable bit, LYC
FrameWrites ==
    { << \hFF40, \h80 >>, << \hFF41, \h08 >>, << \hFF41, \h10 >>,
      << \hFF41, \h20 >>, << \hFF41, \h40 >>, << \hFF45, 144 >> }

\* dots of one cycle() call: at the thresholds of a line, its last dots, and
\* a whole line
PpuTicks == { 4, 80, 252, 452, 456 }

\* dots of a cycle() call made while the LCD is disabled
OffTicks == { 65660, 70224 }

\* dots of the call that precedes the frame that is fed: none, the thresholds
\* of a line, the middle of a frame, the last dots of line 143, the first of
\* line 144, the last of line 153
WarmTicks == { 0, 80, 252, 30000, 65660, 65664, 70220 }

\* dots of the calls that feed a frame
WindowTicks == { 114, 456, 70224 }

\* write8(addr, val) at a Ppu register
PWrite(addr, val) ==
    /\ ~panicked
    /\ p_writes < MaxPpuWrites
    /\ p_phase = "frame" => (p_win.fed = -1 /\ << addr, val >> \in FrameWrites)
    /\ SetMem(mem_write8(Mem, addr, val))
    /\ p_last' = [op |-> "write8", addr |-> addr, val |-> val, pre |-> ppu]
    /\ p_writes' = p_writes + 1
    /\ UNCHANGED << p_win, p_calls >>
    /\ PpuFrame

\* the state after a call of Ppu.cycle(n)
CycleTo(n) ==
    \E r \in { ppu_cycle(ppu, n, overflow_checks) } :
        /\ ppu' = r.ppu
        /\ panicked' = r.panic
        /\ p_last' = [op |-> "cycle", ticks |-> n, pre |-> ppu,
                      vblanks |-> r.vblanks, stats |-> r.stats,
                      draws |-> r.draws, jumps |-> r.jumps]
        /\ UNCHANGED << timer, joy, ram, hram, cartridge, p_writes >>
        /\ PpuFrame

\* Ppu.cycle(n) in a run of interleaved operations
PCycle(n) ==
    /\ ~panicked
    /\ p_phase = "ops"
    /\ p_calls < MaxPpuCalls
    /\ CycleTo(n)
    /\ p_calls' = p_calls + 1
    /\ UNCHANGED p_win

\* Ppu.cycle(n) with the LCD disabled, in a run of interleaved operations
PCycleOff(n) ==
    /\ ~ppu.lcd_display_enabled
    /\ PCycle(n)

\* Ppu.cycle(n) with the LCD on, before a frame is fed
PWarm(n) ==
    /\ ~panicked
    /\ p_phase = "frame"
    /\ ppu.lcd_display_enabled
    /\ p_win.fed = -1
    /\ CycleTo(n)
    /\ p_win' = [fed |-> 0, vblanks |-> 0, ly0 |-> ppu'.ly]
    /\ UNCHANGED p_calls

\* Ppu.cycle(n) as part of the frame that is fed
PFeed(n) ==
    /\ ~panicked
    /\ p_phase = "frame"
    /\ p_win.fed >= 0
    /\ p_win.fed + n <= FRAME_TICKS
    /\ CycleTo(n)
    /\ p_win' = [p_win EXCEPT !.fed = @ + n, !.vblanks = @ + p_last'.vblanks]
    /\ UNCHANGED p_calls

InitPpu ==
    /\ InitState
    /\ regs = DefaultRegisters
    /\ overflow_checks = TRUE
    /\ cartridge = [data |-> ZeroArray, len |-> ROM_LEN]
    /\ t_mode = "ops"
    /\ p_phase \in { "ops", "frame" }

NextPpu ==
    \/ \E w \in PpuWrites : PWrite(w[1], w[2])
    \/ \E n \in PpuTicks : PCycle(n)
    \/ \E n \in OffTicks : PCycleOff(n)
    \/ \E n \in WarmTicks : PWarm(n)
    \/ \E n \in WindowTicks : PFeed(n)

SpecPpu == InitPpu /\ [][NextPpu]_vars

\* C12: with the LCD enabled, once exactly 70,224 dots have been fed through
\* cycle(), in whatever split into calls, the V-Blank interrupt has been
\* raised exactly once during those dots and LY is back at the value it had
\* before them
C12_FrameRaisesOneVblank ==
    (p_phase = "frame" /\ p_win.fed = FRAME_TICKS)
        => /\ p_win.vblanks = 1
           /\ Bit(ppu.inter, 0) = 1
           /\ ppu.ly = p_win.ly0

\* C12 witness: a frame fed in calls of 114 dots, started in the last dots of
\* line 143, is complete
C12_Witness ==
    /\ p_phase = "frame"
    /\ p_win.fed = FRAME_TICKS
    /\ p_win.ly0 = ROWS - 1
    /\ p_last.op = "cycle"
    /\ p_last.ticks = 114
    /\ p_win.vblanks = 1

\* the mode the transition table gives to a dot of a visible line
ModeOfDot(dot) ==
    IF dot < OAM_SEARCH_CYCLES THEN "SearchOam"
    ELSE IF dot < OAM_SEARCH_CYCLES + PIXEL_CYCLES THEN "Transfering"
    ELSE "HBlank"

\* C13: on a visible line (LY < 144) with the LCD enabled, after cycle() has
\* returned the mode is SearchOam while the dot counter is below 80, Transfer
\* from 80 and below 252, HBlank from 252
C13_ModeFollowsDotTable ==
    (p_last.op = "cycle" /\ ~panicked /\ ppu.lcd_display_enabled /\ ppu.ly < ROWS)
        => ppu.mode = ModeOfDot(ppu.ticks)

\* C13 witness of the divergence: cycle(80) on line 0 has left the dot counter
\* at 80 and the mode at SearchOam
C13_Witness ==
    /\ p_last.op = "cycle"
    /\ ~panicked
    /\ ppu.lcd_display_enabled
    /\ ppu.ly = 0
    /\ ppu.ticks = OAM_SEARCH_CYCLES
    /\ ppu.mode = "SearchOam"

\* the LY increments of a call of cycle(n) that starts in p
LineSteps(p, n) == (p.ticks + n) \div LINE_TICKS

\* how many of them bring LY from 143 to 144
StepsTo144(p, n) ==
    Cardinality({ j \in 1 .. LineSteps(p, n) : (p.ly + j) % (ROWS + VBLANK_ROWS) = ROWS })

\* C14: with the LCD enabled, the V-Blank bit (bit 0) of the interrupt latch
\* is set at the steps that bring LY from 143 to 144 and at no other: a call
\* of cycle() raises it once for each such step it makes, none while LY stays
\* within 0..143 or runs through 145..153, and the bit is set afterwards only
\* if it was set before or such a step was made
C14_VblankBitAtLine144 ==
    (p_last.op = "cycle" /\ ~panicked /\ p_last.pre.lcd_display_enabled)
        => /\ p_last.vblanks = StepsTo144(p_last.pre, p_last.ticks)
           /\ ppu.ly = (p_last.pre.ly + LineSteps(p_last.pre, p_last.ticks))
                            % (ROWS + VBLANK_ROWS)
           /\ Bit(ppu.inter, 0) = 1
                  <=> (Bit(p_last.pre.inter, 0) = 1 \/ p_last.vblanks > 0)

\* C14 witness: a call of less than a line has brought LY from 143 to 144 and
\* set the V-Blank bit, which was clear
C14_Witness ==
    /\ p_last.op = "cycle"
    /\ p_last.ticks < LINE_TICKS
    /\ p_last.pre.ly = ROWS - 1
    /\ Bit(p_last.pre.inter, 0) = 0
    /\ ppu.ly = ROWS
    /\ p_last.vblanks = 1
    /\ Bit(ppu.inter, 0) = 1

\* whether the pass that takes the Ppu from p to q has entered mode m
EntersMode(p, q, m) == p.mode # m /\ q.mode = m

\* 1 when the pass from p to q makes one of the events that raise STAT:
\* HBlank, VBlank or SearchOam entered with its enable bit (3, 4, 5) set, or
\* LY incremented to LYC with bit 6 set; entering Transfer is none of them
StatEvents(p, q) ==
    IF \/ EntersMode(p, q, "HBlank") /\ p.hblank_interrupt_enabled
       \/ EntersMode(p, q, "VBlank") /\ p.vblank_interrupt_enabled
       \/ EntersMode(p, q, "SearchOam") /\ p.oam_interrupt_enabled
       \/ q.ly # p.ly /\ p.lyc_interrupt_enabled /\ q.ly = q.lyc
    THEN 1 ELSE 0

\* the Ppu after the first pass of a call of n dots that starts in p
AfterFirstPass(p, n) ==
    ppu_chunk(p, IF n >= CHUNK_TICKS THEN CHUNK_TICKS ELSE n, overflow_checks).ppu

\* C15: a pass of cycle() raises the STAT bit (bit 1 of the latch) if and only
\* if it enters HBlank, VBlank or SearchOam with the STAT enable bit 3, 4 or 5
\* set, or increments LY to LYC with bit 6 set; entering Transfer does not
\* raise it.  Stated for the calls of one pass and of two.
C15_StatRaisedOnEnabledEvents ==
    (/\ p_last.op = "cycle"
     /\ ~panicked
     /\ p_last.pre.lcd_display_enabled
     /\ p_last.ticks > 0
     /\ p_last.ticks <= 2 * CHUNK_TICKS)
        => LET pre == p_last.pre
               mid == AfterFirstPass(pre, p_last.ticks)
           IN  /\ p_last.stats = StatEvents(pre, mid)
                                  + (IF p_last.ticks > CHUNK_TICKS
                                     THEN StatEvents(mid, ppu) ELSE 0)
               /\ Bit(ppu.inter, 1) = 1
                      <=> (Bit(pre.inter, 1) = 1 \/ p_last.stats > 0)

\* C15 witness: a pass has entered HBlank with STAT bit 3 set and raised the
\* STAT bit, which was clear
C15_Witness ==
    /\ p_last.op = "cycle"
    /\ p_last.ticks <= CHUNK_TICKS
    /\ p_last.pre.mode = "Transfering"
    /\ ppu.mode = "HBlank"
    /\ ppu.hblank_interrupt_enabled
    /\ Bit(p_last.pre.inter, 1) = 0
    /\ p_last.stats = 1
    /\ Bit(ppu.inter, 1) = 1

\* C16: a write to LCDC (0xFF40) that changes bit 7 from 1 to 0 resets LY to
\* 0, sets the mode to HBlank and clears the dot counter, so that LY reads 0
\* while the LCD is disabled
C16_DisableResetsLine ==
    (/\ p_last.op = "write8"
     /\ p_last.addr = \hFF40
     /\ p_last.pre.lcd_display_enabled
     /\ Bit(p_last.val, 7) = 0)
        => /\ ~ppu.lcd_display_enabled
           /\ ppu.ly = 0
           /\ ppu.mode = "HBlank"
           /\ ppu.ticks = 0
           /\ ppu_read_ly(ppu) = 0

\* C16 witness of the divergence: the LCD has been disabled on line 1 and LY
\* still reads 1
C16_Witness ==
    /\ p_last.op = "write8"
    /\ p_last.addr = \hFF40
    /\ p_last.pre.lcd_display_enabled
    /\ ~ppu.lcd_display_enabled
    /\ ppu_read_ly(ppu) = 1

\* C17: while the LCD is disabled (LCDC bit 7 = 0), cycle(ticks) changes
\* nothing for any ticks: LY, the mode, the dot counter, the sprite buffer,
\* the framebuffer and the interrupt latch (and every other field of the Ppu)
\* are as before
C17_DisabledCycleIsNoOp ==
    (p_last.op = "cycle" /\ ~p_last.pre.lcd_display_enabled)
        => /\ ppu = p_last.pre
           /\ ~panicked
           /\ p_last.vblanks = 0
           /\ p_last.stats = 0

\* C17 witness: 65,660 dots fed to an LCD disabled at dot 0 of line 1 have
\* left it there
C17_Witness ==
    /\ p_last.op = "cycle"
    /\ p_last.ticks = 65660
    /\ ~p_last.pre.lcd_display_enabled
    /\ ppu.ly = 1
    /\ ppu.ticks = 0
    /\ ppu = p_last.pre

\* the Ppu p with the four STAT interrupt enables of q
WithStatEnables(p, q) ==
    [p EXCEPT !.hblank_interrupt_enabled = q.hblank_interrupt_enabled,
              !.vblank_interrupt_enabled = q.vblank_interrupt_enabled,
              !.oam_interrupt_enabled = q.oam_interrupt_enabled,
              !.lyc_interrupt_enabled = q.lyc_interrupt_enabled]

\* C18: write8(0xFF44, v) leaves LY as it was; write8(0xFF41, v) changes only
\* the interrupt enables, bits 3..6 of STAT, which become those of v, and not
\* the mode bits 1:0 or the coincidence bit 2; in every state these read as
\* the current mode and as LY = LYC
C18_ReadOnlyStateKept ==
    /\ BitAnd(mem_read8(Mem, \hFF41), 3) = ModeU8(ppu.mode)
    /\ Bit(mem_read8(Mem, \hFF41), 2) = 1 <=> ppu.ly = ppu.lyc
    /\ (p_last.op = "write8" /\ p_last.addr = \hFF44)
           => /\ ~panicked
              /\ mem_read8(Mem, \hFF44) = ppu_read_ly(p_last.pre)
              /\ ppu = p_last.pre
    /\ (p_last.op = "write8" /\ p_last.addr = \hFF41)
           => /\ ~panicked
              /\ BitAnd(mem_read8(Mem, \hFF41), 7) = BitAnd(ppu_read_status(p_last.pre), 7)
              /\ BitAnd(mem_read8(Mem, \hFF41), \h78) = BitAnd(p_last.val, \h78)
              /\ ppu = WithStatEnables(p_last.pre, ppu)

\* C18 witness: 0xFF written to STAT in HBlank on line 1, with LYC 0, reads
\* back as 0xF8
C18_Witness ==
    /\ p_last.op = "write8"
    /\ p_last.addr = \hFF41
    /\ p_last.val = \hFF
    /\ p_last.pre.mode = "HBlank"
    /\ p_last.pre.ly = 1
    /\ p_last.pre.lyc = 0
    /\ mem_read8(Mem, \hFF41) = \hF8

---------------------------------------------------------------------------
(* The Cpu: the arithmetic methods and the AF stack opcodes, SpecCpu       *)

CpuFrame == UNCHANGED << timer_hist, j_last, mem_hist, ppu_hist, overflow_checks, cpu, console >>

\* operands of the 8-bit operations
ByteVals == { \h00, \h01, \h08, \h0F, \h10, \h80, \hFF }

\* 16-bit values given to set_af and push
WordVals == { \h0000, \hAA55, \h12FF, \hFF0F, \h0F10, \hFFF0 }

\* the stack pointer of Registers::default(), and the one the tests of push and
\* pop assign
StackTops == { \h0000, \hC002 }

\* an operation that changes the registers alone
CpuRegStep(op, val, r1) ==
    /\ ~panicked
    /\ c_ops < MaxCpuOps
    /\ regs' = r1
    /\ c_last' = [op |-> op, val |-> val, pre |-> regs]
    /\ c_ops' = c_ops + 1
    /\ UNCHANGED << timer, joy, ppu, ram, hram, cartridge, panicked >>
    /\ CpuFrame

\* an operation on the stack, with result t = [regs, mem] (push) or
\* [regs, val, panic] (pop)
CpuPushStep(op, val, t) ==
    /\ ~panicked
    /\ c_ops < MaxCpuOps
    /\ regs' = t.regs
    /\ SetMem(t.mem)
    /\ c_last' = [op |-> op, val |-> val, pre |-> regs]
    /\ c_ops' = c_ops + 1
    /\ CpuFrame

CSetAf(v) == CpuRegStep("set_af", v, set_af(regs, v))

CAddImm(v) == CpuRegStep("add_imm", v, add_imm(regs, v))

CAdcImm(v) == CpuRegStep("adc_imm", v, adc_imm(regs, v))

CSubImm(v) == CpuRegStep("sub_imm", v, sub_imm(regs, v))

CSbcImm(v) == CpuRegStep("sbc_imm", v, sbc_imm(regs, v))

CAndImm(v) == CpuRegStep("and_imm", v, and_imm(regs, v))

CXorImm(v) == CpuRegStep("xor_imm", v, xor_imm(regs, v))

COrImm(v) == CpuRegStep("or_imm", v, or_imm(regs, v))

CCpImm(v) == CpuRegStep("cp_imm", v, cp_imm(regs, v))

\* INC A and DEC A: self.regs.a = self.inc(self.regs.a)
CIncA ==
    LET t == inc(regs, regs.a)
    IN  CpuRegStep("inc_a", 0, [t.regs EXCEPT !.a = t.result])

CDecA ==
    LET t == dec(regs, regs.a)
    IN  CpuRegStep("dec_a", 0, [t.regs EXCEPT !.a = t.result])

CDaa == CpuRegStep("daa", 0, daa(regs))

CCpl == CpuRegStep("cpl", 0, cpl(regs))

CCcf == CpuRegStep("ccf", 0, ccf(regs))

CPush(v) == CpuPushStep("push", v, push(regs, Mem, v, overflow_checks))

CPushAf == CpuPushStep("push_af", get_af(regs), push_af(regs, Mem, overflow_checks))

\* POP AF: val is the word read from the stack
CPopAf ==
    LET t == pop_af(regs, Mem, overflow_checks)
    IN  /\ ~panicked
        /\ c_ops < MaxCpuOps
        /\ regs' = t.regs
        /\ panicked' = t.panic
        /\ c_last' = [op |-> "pop_af", val |-> t.val, pre |-> regs]
        /\ c_ops' = c_ops + 1
        /\ UNCHANGED << timer, joy, ppu, ram, hram, cartridge >>
        /\ CpuFrame

InitCpu ==
    /\ InitState
    /\ \E sp \in StackTops : regs = [DefaultRegisters EXCEPT !.sp = sp]
    /\ overflow_checks = TRUE
    /\ p_phase = "ops"
    /\ cartridge = [data |-> ZeroArray, len |-> ROM_LEN]
    /\ t_mode = "ops"

NextCpu ==
    \/ \E v \in WordVals : CSetAf(v)
    \/ \E v \in ByteVals : CAddImm(v)
    \/ \E v \in ByteVals : CAdcImm(v)
    \/ \E v \in ByteVals : CSubImm(v)
    \/ \E v \in ByteVals : CSbcImm(v)
    \/ \E v \in ByteVals : CAndImm(v)
    \/ \E v \in ByteVals : CXorImm(v)
    \/ \E v \in ByteVals : COrImm(v)
    \/ \E v \in ByteVals : CCpImm(v)
    \/ CIncA
    \/ CDecA
    \/ CDaa
    \/ CCpl
    \/ CCcf
    \/ \E v \in WordVals : CPush(v)
    \/ CPushAf
    \/ CPopAf

SpecCpu == InitCpu /\ [][NextCpu]_vars

\* C19: the low nibble of F is zero in the reset state and after every
\* operation of the Cpu; after set_af(v), and after POP AF of a word v, the
\* pair AF reads v & 0xFFF0
C19_FlagLowNibbleZero ==
    /\ BitAnd(regs.f, \h0F) = 0
    /\ (c_last.op \in { "set_af", "pop_af" } /\ ~panicked)
           => get_af(regs) = BitAnd(c_last.val, \hFFF0)

\* C19 witness: POP AF of the pushed word 0x12FF has left AF = 0x12F0
C19_Witness ==
    /\ c_last.op = "pop_af"
    /\ ~panicked
    /\ c_last.val = \h12FF
    /\ get_af(regs) = \h12F0

\* 1 when flag is set in the registers r, else 0
FlagBit(r, flag) == IF isset_flag(r, flag) THEN 1 ELSE 0

\* C20: ADD A,v (carry-in c = 0) and ADC A,v (c = the C flag before) leave
\* A = (A + v + c) & 0xFF, Z = (A' = 0), N = 0,
\* H = ((A & 0xF) + (v & 0xF) + c > 0xF) and C = (A + v + c > 0xFF)
C20_AddSetsFlags ==
    c_last.op \in { "add_imm", "adc_imm" }
        => LET a0 == c_last.pre.a
               v == c_last.val
               c == IF c_last.op = "adc_imm" THEN FlagBit(c_last.pre, FLAG_CARRY) ELSE 0
           IN  /\ regs.a = (a0 + v + c) % U8
               /\ isset_flag(regs, FLAG_ZERO) <=> regs.a = 0
               /\ ~isset_flag(regs, FLAG_SUB)
               /\ isset_flag(regs, FLAG_HALF) <=> (a0 % 16) + (v % 16) + c > 15
               /\ isset_flag(regs, FLAG_CARRY) <=> a0 + v + c > 255

\* C20 witness of the divergence: ADD A,0x10 with A = 0 has left A = 0x10 with
\* H set
C20_Witness ==
    /\ c_last.op = "add_imm"
    /\ c_last.pre.a = 0
    /\ c_last.val = \h10
    /\ regs.a = \h10
    /\ isset_flag(regs, FLAG_HALF)

\* C21: SUB v (carry-in c = 0) and SBC v (c = the C flag before) leave
\* A = (A - v - c) & 0xFF, Z = (A' = 0), N = 1,
\* H = ((A & 0xF) < (v & 0xF) + c) and C = (A < v + c); CP v leaves the flags
\* of SUB v and A unchanged
C21_SubSetsFlags ==
    c_last.op \in { "sub_imm", "sbc_imm", "cp_imm" }
        => LET a0 == c_last.pre.a
               v == c_last.val
               c == IF c_last.op = "sbc_imm" THEN FlagBit(c_last.pre, FLAG_CARRY) ELSE 0
               diff == (a0 + 2 * U8 - v - c) % U8
           IN  /\ regs.a = IF c_last.op = "cp_imm" THEN a0 ELSE diff
               /\ isset_flag(regs, FLAG_ZERO) <=> diff = 0
               /\ isset_flag(regs, FLAG_SUB)
               /\ isset_flag(regs, FLAG_HALF) <=> (a0 % 16) < (v % 16) + c
               /\ isset_flag(regs, FLAG_CARRY) <=> a0 < v + c
               /\ BitAnd(regs.f, \h0F) = 0

\* C21 witness: SBC 0xFF with A = 0xFF and C set has left A = 0xFF with N, H
\* and C set
C21_Witness ==
    /\ c_last.op = "sbc_imm"
    /\ c_last.pre.a = \hFF
    /\ isset_flag(c_last.pre, FLAG_CARRY)
    /\ c_last.val = \hFF
    /\ regs.a = \hFF
    /\ regs.f = FLAG_SUB + FLAG_HALF + FLAG_CARRY

\* C22: INC A and DEC A leave the C flag as it was; INC leaves Z = (A' = 0),
\* N = 0 and H = ((A' & 0xF) = 0); DEC leaves Z = (A' = 0), N = 1 and
\* H = ((A' & 0xF) = 0xF), for every operand and every earlier flag state
C22_IncDecFlags ==
    c_last.op \in { "inc_a", "dec_a" }
        => LET a0 == c_last.pre.a
               a1 == IF c_last.op = "inc_a" THEN (a0 + 1) % U8 ELSE (a0 + U8 - 1) % U8
           IN  /\ regs.a = a1
               /\ isset_flag(regs, FLAG_CARRY) <=> isset_flag(c_last.pre, FLAG_CARRY)
               /\ isset_flag(regs, FLAG_ZERO) <=> a1 = 0
               /\ isset_flag(regs, FLAG_SUB) <=> c_last.op = "dec_a"
               /\ isset_flag(regs, FLAG_HALF)
                      <=> (a1 % 16) = (IF c_last.op = "inc_a" THEN 0 ELSE 15)

\* C22 witness of the divergence: INC A with A = 0xFF and C set has left
\* A = 0 with Z alone, C and H clear
C22_Witness ==
    /\ c_last.op = "inc_a"
    /\ c_last.pre.a = \hFF
    /\ isset_flag(c_last.pre, FLAG_CARRY)
    /\ regs.a = 0
    /\ regs.f = FLAG_ZERO

---------------------------------------------------------------------------
(* ADD then DAA on packed-BCD operands, as test_daa drives them: A is      *)
(* assigned, add_imm(b) is called, then daa()                               *)

\* the bytes whose two nibbles are decimal digits
BcdVals == { x \in 0 .. U8 - 1 : x % 16 <= 9 /\ x \div 16 <= 9 }

\* the packed-BCD byte of n in 0..99, and the number a packed-BCD byte holds
BcdOf(n) == (n \div 10) * 16 + (n % 10)

BcdValue(x) == (x \div 16) * 10 + (x % 16)

\* cpu.add_imm(b) on the assigned accumulator
BcdAdd(b) ==
    /\ c_last.op = "new"
    /\ CAddImm(b)

\* cpu.daa() after the addition; c_last keeps the operands of the addition
BcdDaa ==
    /\ c_last.op = "add_imm"
    /\ ~panicked
    /\ c_ops < MaxCpuOps
    /\ regs' = daa(regs)
    /\ c_last' = [op |-> "add_daa", val |-> c_last.val, pre |-> c_last.pre]
    /\ c_ops' = c_ops + 1
    /\ UNCHANGED << timer, joy, ppu, ram, hram, cartridge, panicked >>
    /\ CpuFrame

InitBcd ==
    /\ InitState
    /\ \E a \in BcdVals : regs = [DefaultRegisters EXCEPT !.a = a]
    /\ overflow_checks = TRUE
    /\ p_phase = "ops"
    /\ cartridge = [data |-> ZeroArray, len |-> ROM_LEN]
    /\ t_mode = "ops"

NextBcd ==
    \/ \E b \in BcdVals : BcdAdd(b)
    \/ BcdDaa

SpecBcd == InitBcd /\ [][NextBcd]_vars

\* C23: for valid packed-BCD bytes a and b, from clear flags, A = a;
\* ADD A,b; DAA leaves A = the packed BCD of (a + b) mod 100, C = 1 exactly
\* when a + b >= 100 in decimal, H clear and Z = (A = 0)
C23_DaaAfterAdd ==
    c_last.op = "add_daa"
        => LET sum == BcdValue(c_last.pre.a) + BcdValue(c_last.val)
           IN  /\ regs.a = BcdOf(sum % 100)
               /\ isset_flag(regs, FLAG_CARRY) <=> sum >= 100
               /\ ~isset_flag(regs, FLAG_HALF)
               /\ isset_flag(regs, FLAG_ZERO) <=> regs.a = 0

\* C23 witness of the divergence: A = 0x10; ADD A,0x00; DAA has left
\* A = 0x16
C23_Witness ==
    /\ c_last.op = "add_daa"
    /\ c_last.pre.a = \h10
    /\ c_last.pre.f = 0
    /\ c_last.val = 0
    /\ regs.a = \h16

---------------------------------------------------------------------------
(* Cpu::execute on programs held in the cartridge ROM                       *)

\* the addresses of the CALL, the call targets and the stack tops of the runs
CallSites == { \h0000, \h0150, \h7FFD }

CallTargets == { \h0234, \h4000 }

ExecStackTops == { \hD000, \hFFFE, \h0000 }

\* the flag bytes set_af can leave in Z and C
ExecFlags == { 0, FLAG_ZERO, FLAG_CARRY, FLAG_ZERO + FLAG_CARRY }

\* a ROM holding op nn at p, and retop at nn
CallRom(p, op, nn, retop) ==
    [ data |-> (p :> op) @@ ((p + 1) :> (nn % U8)) @@ ((p + 2) :> (nn \div U8))
                @@ (nn :> retop),
      len |-> ROM_LEN ]

\* the last instruction executed, as the next one's history keeps it
ExecPrev ==
    IF c_last.op = "execute"
    THEN [op |-> "execute", opcode |-> c_last.opcode, pre |-> c_last.pre,
          taken |-> c_last.taken]
    ELSE [op |-> "none"]

\* one call of execute
CExecute ==
    \E opcode \in { mem_read8(Mem, regs.pc) } :
      \E t \in { IF ExecModelled(regs, Mem) THEN execute(regs, Mem, cpu, overflow_checks)
                  ELSE arm_panic(regs, Mem, cpu) } :
        /\ ~panicked
        /\ c_ops < MaxCpuOps
        /\ ExecModelled(regs, Mem)
        /\ regs' = t.regs
        /\ cpu' = t.cpu
        /\ SetMem(t.mem)
        /\ c_last' = [op |-> "execute", opcode |-> opcode, pre |-> regs,
                      operand |-> mem_read8(Mem, (regs.pc + 1) % U16),
                      pre_cpu |-> cpu, cycles |-> t.cycles,
                      taken |-> IF opcode \in { \hC4, \hCC, \hD4, \hDC, \hC0, \hC8, \hD0, \hD8 }
                                THEN cc_holds(regs, opcode) ELSE TRUE,
                      prev |-> ExecPrev]
        /\ c_ops' = c_ops + 1
        /\ UNCHANGED << timer_hist, j_last, mem_hist, ppu_hist, overflow_checks, console >>

InitExec ==
    /\ InitState
    /\ \E p \in CallSites, sp \in ExecStackTops, f \in ExecFlags :
           regs = [DefaultRegisters EXCEPT !.pc = p, !.sp = sp, !.f = f]
    /\ \E p \in CallSites, nn \in CallTargets,
          op \in { \hCD, \hC4, \hCC, \hD4, \hDC }, retop \in { \hC9, \hD9, \hC0, \hD8 } :
           /\ regs.pc = p
           /\ cartridge = CallRom(p, op, nn, retop)
    /\ overflow_checks \in BOOLEAN
    /\ p_phase = "ops"
    /\ t_mode = "ops"

NextExec == CExecute

SpecExec == InitExec /\ [][NextExec]_vars

\* the instruction before the last one was a CALL that was taken
AfterCall ==
    /\ c_last.op = "execute"
    /\ c_last.prev.op = "execute"
    /\ c_last.prev.opcode \in { \hCD, \hC4, \hCC, \hD4, \hDC }
    /\ c_last.prev.taken

\* C24: CALL nn, and CALL cc,nn when taken, at address p pushes p + 3 and sets
\* PC = nn; a RET executed next leaves PC = p + 3 and SP as it was before the
\* CALL; RETI does the same and sets IME
C24_CallThenRet ==
    /\ (/\ c_last.op = "execute"
        /\ c_last.opcode \in { \hCD, \hC4, \hCC, \hD4, \hDC }
        /\ c_last.taken
        /\ ~panicked)
           => /\ regs.sp = (c_last.pre.sp + U16 - 2) % U16
              /\ mem_read8(Mem, regs.sp) = ((c_last.pre.pc + 3) % U16) % U8
              /\ mem_read8(Mem, (regs.sp + 1) % U16) = ((c_last.pre.pc + 3) % U16) \div U8
              /\ regs.pc = mem_read8(Mem, (c_last.pre.pc + 1) % U16)
                             + U8 * mem_read8(Mem, (c_last.pre.pc + 2) % U16)
    /\ (AfterCall /\ c_last.opcode \in { \hC9, \hD9 } /\ ~panicked)
           => /\ regs.pc = (c_last.prev.pre.pc + 3) % U16
              /\ regs.sp = c_last.prev.pre.sp
              /\ c_last.opcode = \hD9 => cpu.interrupts

\* C24 witness of the divergence: CALL 0x0234 at 0x0150 with SP = 0xD000,
\* then RET, has left PC = 0x0234 and SP = 0xD000
C24_Witness ==
    /\ AfterCall
    /\ c_last.prev.opcode = \hCD
    /\ c_last.prev.pre.pc = \h0150
    /\ c_last.prev.pre.sp = \hD000
    /\ c_last.opcode = \hC9
    /\ ~panicked
    /\ regs.pc = \h0234
    /\ regs.sp = \hD000

---------------------------------------------------------------------------
(* Cpu::push and Cpu::pop at every kind of stack top                        *)

\* stack tops: the reset value 0, 1, the two highest addresses, Work RAM
\* (0xC002 is the one of test_push) and High RAM
PushStackTops == { \h0000, \h0001, \h0002, \hC000, \hC002, \hDFFF, \hFFFE, \hFFFF }

\* cpu.pop(); val is the word returned, prev the operation before
CPop ==
    LET t == pop(regs, Mem, overflow_checks)
    IN  /\ ~panicked
        /\ c_ops < MaxCpuOps
        /\ regs' = t.regs
        /\ panicked' = t.panic
        /\ c_last' = [op |-> "pop", val |-> t.val, pre |-> regs,
                      prev |-> IF c_last.op = "push"
                               THEN [op |-> "push", val |-> c_last.val, pre |-> c_last.pre]
                               ELSE [op |-> "none"]]
        /\ c_ops' = c_ops + 1
        /\ UNCHANGED << timer, joy, ppu, ram, hram, cartridge >>
        /\ CpuFrame

InitStack ==
    /\ InitState
    /\ \E sp \in PushStackTops : regs = [DefaultRegisters EXCEPT !.sp = sp]
    /\ overflow_checks \in BOOLEAN
    /\ p_phase = "ops"
    /\ cartridge = [data |-> ZeroArray, len |-> ROM_LEN]
    /\ t_mode = "ops"

NextStack ==
    \/ \E v \in WordVals : CPush(v)
    \/ CPop

SpecStack == InitStack /\ [][NextStack]_vars

\* addr and addr + 1 are both in Work RAM
InWorkRam(addr) == addr >= \hC000 /\ addr + 1 <= \hDFFF

\* C25: push(v) leaves SP = (SP - 2) mod 65536 with v stored little-endian at
\* the new SP; pop returns the word at SP and leaves SP = (SP + 2) mod 65536;
\* neither fails at any SP (0, 1, 0xFFFE and 0xFFFF wrap); with the stack in
\* RAM, push(v) then pop returns v and restores SP
C25_PushPopWrap ==
    /\ c_last.op \in { "push", "pop" } => ~panicked
    /\ c_last.op = "push"
           => /\ regs.sp = (c_last.pre.sp + U16 - 2) % U16
              /\ InWorkRam(regs.sp)
                     => /\ mem_read8(Mem, regs.sp) = c_last.val % U8
                        /\ mem_read8(Mem, regs.sp + 1) = c_last.val \div U8
    /\ c_last.op = "pop"
           => /\ regs.sp = (c_last.pre.sp + 2) % U16
              /\ (c_last.prev.op = "push" /\ InWorkRam(c_last.pre.sp))
                     => /\ c_last.val = c_last.prev.val
                        /\ regs.sp = c_last.prev.pre.sp

\* C25 witness of the divergence: push(0x12FF) with SP = 0 in a build with
\* overflow checks has panicked
C25_Witness ==
    /\ c_last.op = "push"
    /\ c_last.pre.sp = 0
    /\ c_last.val = \h12FF
    /\ overflow_checks
    /\ panicked

---------------------------------------------------------------------------
(* The decode of execute and cb_execute, and the count an arm returns,      *)
(* SpecDecode                                                               *)

\* the second byte of the instructions that have one; the others are followed
\* by 0
DecodeOperands(opcode) ==
    IF opcode = \hCB THEN CbArmOpcodes
    ELSE IF opcode = \hE8 THEN { \h05 }
    ELSE IF opcode \in { \hCD, \hC4, \hCC, \hD4, \hDC } THEN { \h34 }
    ELSE { 0 }

\* a ROM holding opcode at 0 and operand at 1
DecodeRom(opcode, operand) ==
    [ data |-> (0 :> opcode) @@ (1 :> operand), len |-> ROM_LEN ]

\* ROM images that end before the instruction does: an empty image, and
\* images of one byte holding 0xCB, 0xE8 or 0xCD
ShortRoms ==
    { [ data |-> ZeroArray, len |-> 0 ] }
        \cup { [ data |-> (0 :> op), len |-> 1 ] : op \in { \hCB, \hE8, \hCD } }

\* the stack is at the top of work RAM, or SP is 0 as Registers::default()
\* leaves it
DecodeStackTops == { \h0000, \hDFF0 }

InitDecode ==
    /\ InitState
    /\ \E f \in ExecFlags, sp \in DecodeStackTops :
           regs = [DefaultRegisters EXCEPT !.f = f, !.sp = sp]
    /\ \/ \E opcode \in ExecOpcodes :
             \E operand \in DecodeOperands(opcode) :
                 cartridge = DecodeRom(opcode, operand)
       \/ cartridge \in ShortRoms
    /\ overflow_checks \in BOOLEAN
    /\ p_phase = "ops"
    /\ t_mode = "ops"

NextDecode == CExecute

SpecDecode == InitDecode /\ [][NextDecode]_vars

\* the canonical LR35902 M-cycle counts by opcode from 0x00: the taken count
\* of a conditional instruction, 0 for the undefined opcodes and the prefix
CanonicalCounts ==
    <<
           1,     3,     2,     2,     1,     1,     2,     1,     5,     2,     2,     2,     1,     1,     2,     1,
           1,     3,     2,     2,     1,     1,     2,     1,     3,     2,     2,     2,     1,     1,     2,     1,
           3,     3,     2,     2,     1,     1,     2,     1,     3,     2,     2,     2,     1,     1,     2,     1,
           3,     3,     2,     2,     3,     3,     3,     1,     3,     2,     2,     2,     1,     1,     2,     1,
           1,     1,     1,     1,     1,     1,     2,     1,     1,     1,     1,     1,     1,     1,     2,     1,
           1,     1,     1,     1,     1,     1,     2,     1,     1,     1,     1,     1,     1,     1,     2,     1,
           1,     1,     1,     1,     1,     1,     2,     1,     1,     1,     1,     1,     1,     1,     2,     1,
           2,     2,     2,     2,     2,     2,     1,     2,     1,     1,     1,     1,     1,     1,     2,     1,
           1,     1,     1,     1,     1,     1,     2,     1,     1,     1,     1,     1,     1,     1,     2,     1,
           1,     1,     1,     1,     1,     1,     2,     1,     1,     1,     1,     1,     1,     1,     2,     1,
           1,     1,     1,     1,     1,     1,     2,     1,     1,     1,     1,     1,     1,     1,     2,     1,
           1,     1,     1,     1,     1,     1,     2,     1,     1,     1,     1,     1,     1,     1,     2,     1,
           5,     3,     4,     4,     6,     4,     2,     4,     5,     4,     4,     0,     6,     6,     2,     4,
           5,     3,     4,     0,     6,     4,     2,     4,     5,     4,     4,     0,     6,     0,     2,     4,
           3,     3,     2,     0,     0,     4,     2,     4,     4,     1,     4,     0,     0,     0,     2,     4,
           3,     3,     2,     1,     0,     4,     2,     4,     3,     2,     4,     1,     0,     0,     2,     4
    >>

\* the conditional instructions, and their canonical count when the condition
\* does not hold: 2 for JR cc and RET cc, 3 for JP cc and CALL cc
CondOpcodes ==
    { \h20, \h28, \h30, \h38, \hC0, \hC8, \hD0, \hD8,
      \hC2, \hCA, \hD2, \hDA, \hC4, \hCC, \hD4, \hDC }

NotTakenCount(opcode) ==
    IF opcode \in { \h20, \h28, \h30, \h38, \hC0, \hC8, \hD0, \hD8 } THEN 2 ELSE 3

\* the canonical count of a CB-prefixed opcode
CanonicalCbCount(opcode) ==
    IF opcode % 8 # 6 THEN 2
    ELSE IF opcode >= \h40 /\ opcode <= \h7F THEN 3 ELSE 4

\* the canonical count of the instruction executed last
CanonicalCount ==
    IF c_last.opcode = \hCB THEN CanonicalCbCount(c_last.operand)
    ELSE IF c_last.opcode \in CondOpcodes /\ ~cc_holds(c_last.pre, c_last.opcode)
         THEN NotTakenCount(c_last.opcode)
    ELSE CanonicalCounts[c_last.opcode + 1]

\* C26: every defined opcode returns the canonical LR35902 M-cycle count: a
\* primary opcode its fixed count in 1..6 (RET 4, RETI 4, RST 4, ADD SP,e8 4,
\* CALL 6, PUSH 4, POP 3), a conditional JR, JP, CALL or RET the taken or the
\* not-taken count, a CB-prefixed opcode 2 on a register, 3 for BIT n,(HL)
\* and 4 for the other (HL) forms
C26_CanonicalCycles ==
    (c_last.op = "execute" /\ ~panicked) => c_last.cycles = CanonicalCount

\* C26 witness of the divergence: RET (0xC9) has returned 2
C26_Witness ==
    /\ c_last.op = "execute"
    /\ c_last.opcode = \hC9
    /\ ~panicked
    /\ c_last.cycles = 2

\* the arms whose count is not the canonical one
WrongCountOpcodes == { \hC9, \hC7, \hCF, \hD7, \hDF, \hE7, \hEF, \hF7, \hFF, \hE8 }

\* the other arms of the runs return the canonical count
OtherCountsCanonical ==
    (c_last.op = "execute" /\ ~panicked /\ c_last.opcode \notin WrongCountOpcodes)
        => c_last.cycles = CanonicalCount

\* C27: executing a primary opcode among 0xD3, 0xDB, 0xDD, 0xE3, 0xE4, 0xEB,
\* 0xEC, 0xED, 0xF4, 0xFC, 0xFD ends in the fatal error, and no other opcode
\* does: every other primary opcode and every CB-prefixed opcode is decoded
\* and returns a count
C27_UndefinedOpcodesPanic ==
    c_last.op = "execute"
        => /\ panicked <=> c_last.opcode \in UndefinedOpcodes
           /\ ~panicked => c_last.cycles \in 1 .. 6

\* C27 witness of the divergence: CALL (0xCD) with SP = 0, in a build with
\* overflow checks, has ended in a panic
C27_Witness ==
    /\ c_last.op = "execute"
    /\ c_last.opcode = \hCD
    /\ c_last.pre.sp = 0
    /\ overflow_checks
    /\ panicked

\* the part of C27 that holds: the eleven opcodes end in the panic, and in a
\* build without overflow checks no other opcode of the runs does when the
\* ROM image holds the whole instruction
UndefinedOpcodesEndInPanic ==
    c_last.op = "execute"
        => /\ c_last.opcode \in UndefinedOpcodes => panicked
           /\ (panicked /\ ~overflow_checks /\ cartridge.len = ROM_LEN)
                  => c_last.opcode \in UndefinedOpcodes

\* a fetch past the end of the ROM image ends in the panic: the opcode fetch on
\* an empty image, the fetch of the second byte on an image of one byte
FetchPastRomPanics ==
    (c_last.op = "execute" /\ c_last.pre.pc = 0 /\ cartridge.len <= 1) => panicked

---------------------------------------------------------------------------
(* Console::cycle                                                           *)

\* the programs of the runs: NOPs alone; HALT at 0; EI, HALT; STOP at 0
ConsoleRoms ==
    { [ data |-> ZeroArray, len |-> ROM_LEN ],
      [ data |-> (0 :> \h76), len |-> ROM_LEN ],
      [ data |-> (0 :> \hFB) @@ (1 :> \h76), len |-> ROM_LEN ],
      [ data |-> (0 :> \h10), len |-> ROM_LEN ] }

\* the Ppu with the LCD on, four dots before line 144
NearVblankPpu == ppu_cycle(ppu_write_control(DefaultPpu, \h80), FRAME_TICKS - 4564, TRUE).ppu

ConsolePpus == { DefaultPpu, NearVblankPpu }

\* values of IE and IF
EnableVals == { \h00, \h01, \h1F }

FlagVals == { \h00, \h02, \h14, \h1F }

ConsoleStackTops == { \hD000, \h0000 }

\* HALT and STOP executed up to the last cycle
HaltsSoFar == IF c_last.op = "cycle" THEN c_last.halts ELSE 0

\* console.cycle()
ConsoleCycle ==
    \E opcode \in { mem_read8(Mem, regs.pc) } :
      \E t \in { IF ExecModelled(regs, Mem)
                  THEN cpu_cycle(regs, Mem, cpu, console, overflow_checks)
                  ELSE cycle_result(arm_panic(regs, Mem, cpu), Mem) } :
        /\ ~panicked
        /\ c_ops < MaxCpuOps
        /\ ExecModelled(regs, Mem)
        /\ regs' = t.regs
        /\ cpu' = t.cpu
        /\ console' = t.console
        /\ SetMem(t.mem)
        /\ c_last' = [op |-> "cycle", kind |-> t.kind, cycles |-> t.cycles,
                      opcode |-> opcode, pre |-> regs, pre_cpu |-> cpu,
                      pre_con |-> console, pre_ppu |-> ppu, pre_timer |-> timer,
                      pre_joy |-> joy,
                      cpu_if |-> t.cpu_if, halted_before |-> HaltsSoFar > 0,
                      halts |-> HaltsSoFar
                                  + (IF t.kind = "execute" /\ opcode \in { \h10, \h76 }
                                     THEN 1 ELSE 0)]
        /\ c_ops' = c_ops + 1
        /\ UNCHANGED << timer_hist, j_last, mem_hist, ppu_hist, overflow_checks >>

\* Console::new(), then the fields a test assigns: the stack pointer, IME and
\* the enabled flag (false from Default), IE and IF, the Ppu and the ROM
InitConsole ==
    /\ timer = DefaultTimer
    /\ joy = DefaultJoypad
    /\ ppu \in ConsolePpus
    /\ ram = ZeroArray
    /\ hram = ZeroArray
    /\ panicked = FALSE
    /\ t_last = "new"
    /\ t_calls = 0
    /\ t_writes = 0
    /\ t_since_div = -1
    /\ t_prev = DefaultTimer
    /\ t_val = -1
    /\ j_last = [op |-> "new"]
    /\ m_last = [op |-> "new"]
    /\ m_writes = 0
    /\ m_dma = FALSE
    /\ m_reads = 0
    /\ p_last = [op |-> "new"]
    /\ p_win = [fed |-> -1, vblanks |-> 0, ly0 |-> 0]
    /\ p_calls = 0
    /\ p_writes = 0
    /\ c_last = [op |-> "new"]
    /\ c_ops = 0
    /\ \E en \in BOOLEAN, ime \in BOOLEAN :
           cpu = [interrupts |-> ime, enabled |-> en]
    /\ \E ie \in EnableVals, iflag \in FlagVals :
           console = [DefaultConsole EXCEPT !.ie = ie, !.iflag = iflag]
    /\ cartridge \in ConsoleRoms
    /\ \E sp \in ConsoleStackTops : regs = [DefaultRegisters EXCEPT !.sp = sp]
    /\ overflow_checks \in BOOLEAN
    /\ p_phase = "ops"
    /\ t_mode = "ops"

NextConsole == ConsoleCycle

SpecConsole == InitConsole /\ [][NextConsole]_vars

\* IE & IF at the entry of the last cycle
PendingAtEntry == BitAnd(BitAnd(c_last.pre_con.ie, c_last.pre_con.iflag), \h1F)

\* C28: after HALT (0x76) has executed the CPU fetches and executes nothing,
\* PC and the registers staying as they are, for as long as no bit of
\* IE & IF is set; the flag is consulted at the entry of every step; a CPU
\* that was never halted or stopped executes instructions normally
C28_HaltStopsFetch ==
    c_last.op = "cycle"
        => /\ (~c_last.pre_cpu.enabled /\ PendingAtEntry = 0)
                  => (c_last.kind = "idle" /\ regs = c_last.pre)
           /\ (~c_last.halted_before /\ ~(c_last.pre_cpu.interrupts /\ PendingAtEntry # 0))
                  => (c_last.kind = "execute" /\ regs.pc = (c_last.pre.pc + 1) % U16)

\* C28 witness of the divergence: the first cycle of a Console as new()
\* leaves it, on a ROM of NOPs, has executed nothing
C28_Witness ==
    /\ c_last.op = "cycle"
    /\ ~c_last.halted_before
    /\ c_last.pre_cpu = DefaultCpu
    /\ c_last.pre_con = DefaultConsole
    /\ c_last.opcode = 0
    /\ c_last.kind = "idle"
    /\ regs.pc = 0

\* the number of the lowest line pending at the entry of the last cycle
LowestPending ==
    IF Bit(PendingAtEntry, 0) = 1 THEN 0
    ELSE IF Bit(PendingAtEntry, 1) = 1 THEN 1
    ELSE IF Bit(PendingAtEntry, 2) = 1 THEN 2
    ELSE IF Bit(PendingAtEntry, 3) = 1 THEN 3
    ELSE 4

\* C29: before the fetch, if IME is set and IE & IF # 0, the CPU services
\* the lowest-numbered pending and enabled interrupt (V-Blank 0, STAT 1,
\* Timer 2, Serial 3, Joypad 4): it clears that bit of IF, clears IME, pushes
\* PC, sets PC to 0x40 + 8 * number and consumes 5 M-cycles; with IME clear
\* or IE & IF = 0 no interrupt is serviced
C29_ServiceLowestPending ==
    c_last.op = "cycle"
        => IF c_last.pre_cpu.interrupts /\ PendingAtEntry # 0
           THEN /\ ~panicked
                /\ c_last.kind = "service"
                /\ c_last.cycles = 5
                /\ c_last.cpu_if = c_last.pre_con.iflag - 2 ^ LowestPending
                /\ ~cpu.interrupts
                /\ regs.sp = (c_last.pre.sp + U16 - 2) % U16
                /\ mem_read8(Mem, regs.sp) = c_last.pre.pc % U8
                /\ mem_read8(Mem, (regs.sp + 1) % U16) = c_last.pre.pc \div U8
                /\ regs.pc = \h40 + 8 * LowestPending
           ELSE /\ c_last.kind # "service"
                /\ c_last.cpu_if = c_last.pre_con.iflag

\* C29 witness of the divergence: IME set, IE = 0x1F, IF = 0x14 and SP = 0 in
\* a build with overflow checks: the push of PC has panicked
C29_Witness ==
    /\ c_last.op = "cycle"
    /\ c_last.pre_cpu.interrupts
    /\ c_last.pre_con.ie = \h1F
    /\ c_last.pre_con.iflag = \h14
    /\ c_last.pre.sp = 0
    /\ overflow_checks
    /\ panicked

\* the Ppu after the dots of the last cycle, from the Ppu before it
PpuAfterCycle == ppu_cycle(c_last.pre_ppu, 4 * c_last.cycles, overflow_checks).ppu

C32_CountBelowStep ==
    (Cycled /\ timer.enabled) => timer.internal_count < timer.step

\* a cycle() call that subtracted the step once and left a full period behind
C32_Witness ==
    /\ Cycled
    /\ timer.enabled
    /\ t_prev.step = 16
    /\ t_prev.internal_count >= 2 * 16
    /\ timer.internal_count = t_prev.internal_count + TICKS - 16

---------------------------------------------------------------------------
(* The timer control register: write_tac() over every byte                 *)

MaxTacCalls == 3

MaxTacWrites == 2

TacBytes == 0 .. 255

TacWrite ==
    /\ t_mode = "tac"
    /\ t_writes < MaxTacWrites
    /\ \E v \in TacBytes : TWriteTac(v)

TacCycle ==
    /\ t_mode = "tac"
    /\ t_calls < MaxTacCalls
    /\ TCycle

InitTac ==
    /\ InitState
    /\ regs = DefaultRegisters
    /\ overflow_checks = TRUE
    /\ p_phase = "ops"
    /\ cartridge = [data |-> ZeroArray, len |-> ROM_LEN]
    /\ t_mode = "tac"

NextTac == TacWrite \/ TacCycle

SpecTac == InitTac /\ [][NextTac]_vars

\* the period the clock select bits 1:0 of TAC stand for
StepOfSelect(sel) == CASE sel = 0 -> 1024 [] sel = 1 -> 16 [] sel = 2 -> 64 [] sel = 3 -> 256

\* C31: write_tac(v) sets step from v & 0b11 (00 -> 1024, 01 -> 16, 10 -> 64,
\* 11 -> 256) and enabled from v & 0b100, and read_tac() then returns
\* (v & 0x07) | 0xF8; step is always one of 1024, 16, 64, 256, so read_tac()
\* fails in no reachable timer state
C31_TacRoundTrip ==
    /\ timer.step \in { 1024, 16, 64, 256 }
    /\ timer_read_tac(timer) # Panic
    /\ t_val # -1 =>
           /\ timer.step = StepOfSelect(t_val % 4)
           /\ timer.enabled = ((t_val \div 4) % 2 = 1)
           /\ timer_read_tac(timer) = BitOr(t_val % 8, \hF8)

C31_Witness ==
    /\ t_last = "write_tac"
    /\ t_val = \h15
    /\ t_prev.step = 1024
    /\ timer.step = 16
    /\ timer.enabled
    /\ timer_read_tac(timer) = \hFD

---------------------------------------------------------------------------
(* The Ppu: line counter, dot counter and modes, SpecPpu                   *)

\* C33: in every state the Ppu reaches through cycle(ticks) calls and register
\* writes, and so after every cycle() call that returns, LY is within 0..153,
\* the dot accumulator is below 456, and the mode is VBlank if and only if
\* LY >= 144
C33_LineDotModeRanges ==
    ~panicked =>
        /\ ppu.ly \in 0 .. ROWS + VBLANK_ROWS - 1
        /\ ppu.ticks \in 0 .. LINE_TICKS - 1
        /\ ppu.mode = "VBlank" <=> ppu.ly >= ROWS

\* C33 witness: a cycle() call made after a register write has wrapped LY from
\* 153 to 0 and left V-Blank
C33_Witness ==
    /\ p_last.op = "cycle"
    /\ ~panicked
    /\ p_writes > 0
    /\ p_last.pre.ly = ROWS + VBLANK_ROWS - 1
    /\ p_last.pre.mode = "VBlank"
    /\ ppu.ly = 0
    /\ ppu.mode = "SearchOam"

\* the visible lines on which a call of cycle(n) that starts in p switches to
\* Transfering: line k after the current one is reached and the dot counter
\* gets past OAM_SEARCH_CYCLES on it before the call ends
LinesEntered(p, n) ==
    { k \in 0 .. LineSteps(p, n) :
        /\ (p.ly + k) % (ROWS + VBLANK_ROWS) < ROWS
        /\ p.ticks + n > k * LINE_TICKS + OAM_SEARCH_CYCLES
        /\ k = 0 => p.mode = "SearchOam" }

\* C34: with the LCD enabled, in whatever way the dots are split into
\* cycle(ticks) calls, a single call of many lines included, no pass changes
\* the mode out of the order SearchOam, Transfering, HBlank on a visible line
\* (then SearchOam on the next line, VBlank on line 144, SearchOam on line 0
\* after VBlank), and Transfering is entered, and the line drawn, exactly once
\* on every visible line
C34_ModesInOrder ==
    (p_last.op = "cycle" /\ ~panicked /\ p_last.pre.lcd_display_enabled)
        => /\ p_last.jumps = 0
           /\ p_last.draws = Cardinality(LinesEntered(p_last.pre, p_last.ticks))

\* C34 witness: one call of a whole frame, started in the middle of a line,
\* has drawn each of the 144 visible lines once
C34_Witness ==
    /\ p_last.op = "cycle"
    /\ ~panicked
    /\ p_last.ticks = FRAME_TICKS
    /\ p_last.pre.mode = "Transfering"
    /\ p_last.draws = ROWS
    /\ p_last.jumps = 0

---------------------------------------------------------------------------
(* The Ppu: the OAM scan of each line, SpecOam                             *)

MaxOamLines == 48

\* OAM contents, as sets of << sprite, y, x >>: none written; two sprites on
\* different lines; twelve sprites on the same lines; a sprite whose y plus
\* the height passes 255, and one further down
OamLayouts ==
    { {},
      { << 0, 16, 8 >>, << 5, 20, 1 >> },
      { << i, 10, i + 1 >> : i \in 0 .. 11 },
      { << 3, 250, 9 >>, << 7, 30, 2 >> } }

RECURSIVE OamWritten(_, _)
\* the Ppu after write_oam() of the y and x bytes of every sprite of a layout
OamWritten(p, layout) ==
    IF layout = {} THEN p
    ELSE LET s == CHOOSE e \in layout : TRUE
         IN  OamWritten(ppu_write_oam(ppu_write_oam(p, \hFE00 + 4 * s[1], s[2]),
                                      \hFE00 + 4 * s[1] + 1, s[3]),
                        layout \ { s })

\* LCDC values that enable the LCD, with sprites of 8 and of 16 lines
OamControls == { \h80, \h84 }

\* cycle() over one line; a call that starts at dot 0 ends at dot 0 of the
\* next line, after the OAM scan of that line
OamLine ==
    /\ ~panicked
    /\ p_phase = "oam"
    /\ p_calls < MaxOamLines
    /\ CycleTo(LINE_TICKS)
    /\ p_calls' = p_calls + 1
    /\ UNCHANGED p_win

\* write_oam() of the y byte of sprite 0, between two lines
OamMove(y) ==
    /\ ~panicked
    /\ p_phase = "oam"
    /\ p_writes < 1
    /\ ppu' = ppu_write_oam(ppu, \hFE00, y)
    /\ p_last' = [op |-> "write_oam", addr |-> \hFE00, val |-> y, pre |-> ppu]
    /\ p_writes' = p_writes + 1
    /\ UNCHANGED << timer, joy, ram, hram, cartridge, panicked, p_win, p_calls >>
    /\ PpuFrame

InitOam ==
    /\ timer = DefaultTimer
    /\ joy = DefaultJoypad
    /\ ppu \in { ppu_write_control(OamWritten(DefaultPpu, l), c) :
                    l \in OamLayouts, c \in OamControls }
    /\ ram = ZeroArray
    /\ hram = ZeroArray
    /\ cartridge = [data |-> ZeroArray, len |-> ROM_LEN]
    /\ panicked = FALSE
    /\ t_last = "new"
    /\ t_calls = 0
    /\ t_writes = 0
    /\ t_since_div = -1
    /\ t_prev = DefaultTimer
    /\ t_val = -1
    /\ t_mode = "ops"
    /\ j_last = [op |-> "new"]
    /\ m_last = [op |-> "new"]
    /\ m_writes = 0
    /\ m_dma = FALSE
    /\ m_reads = 0
    /\ p_last = [op |-> "new"]
    /\ p_phase = "oam"
    /\ p_win = [fed |-> -1, vblanks |-> 0, ly0 |-> 0]
    /\ p_calls = 0
    /\ p_writes = 0
    /\ overflow_checks \in BOOLEAN
    /\ regs = DefaultRegisters
    /\ c_last = [op |-> "new"]
    /\ c_ops = 0
    /\ cpu = DefaultCpu
    /\ console = DefaultConsole

\* the lines sprite 0 is moved to
OamMoves == { 12, 40 }

NextOam == OamLine \/ \E y \in OamMoves : OamMove(y)

SpecOam == InitOam /\ [][NextOam]_vars

\* the sprites of OAM that cover the current line: LY >= y and LY < y + height,
\* the sum taken in the integers
OamMatches(p) ==
    { i \in 0 .. 39 : p.ly >= ArrGet(p.oam, 4 * i)
                      /\ p.ly < ArrGet(p.oam, 4 * i) + p.sprite_height }

\* sprite i as the scan stores it
OamSprite(p, i) ==
    [ y |-> ArrGet(p.oam, 4 * i), x |-> ArrGet(p.oam, 4 * i + 1), index |-> 4 * i ]

\* the first ten matches, in OAM order
OamFirstTen(p) ==
    { i \in OamMatches(p) : Cardinality({ j \in OamMatches(p) : j < i }) < 10 }

\* the last cycle() call has run the OAM scan of the line it has reached
Scanned ==
    /\ p_last.op = "cycle"
    /\ ppu.mode = "SearchOam"
    /\ ppu.ly # p_last.pre.ly

\* the scan has completed and the buffer starts with the first ten matches in
\* OAM order
OamPrefixRight ==
    /\ ~panicked
    /\ \A i \in OamFirstTen(ppu) :
           ppu.sprites[Cardinality({ j \in OamMatches(ppu) : j < i })] = OamSprite(ppu, i)

\* C35: the OAM scan of a line completes for every OAM content and selects
\* exactly the sprites with LY >= y and LY < y + sprite_height (height 8 or
\* 16, the sum without wrap): the buffer holds the first ten matches in OAM
\* order, and none of its slots holds a sprite that does not match
C35_OamScanSelects ==
    Scanned =>
        /\ OamPrefixRight
        /\ \A k \in 0 .. 9 :
               ppu.sprites[k] \in { OamSprite(ppu, i) : i \in 0 .. 39 }
                   => ppu.sprites[k] \in { OamSprite(ppu, i) : i \in OamMatches(ppu) }

\* C35 witness of the divergence: the scan of line 28 found no sprite and the
\* buffer still holds sprite 5, which covers lines 20 to 27
C35_Witness ==
    /\ Scanned
    /\ ~panicked
    /\ ppu.ly = 28
    /\ ppu.sprite_height = 8
    /\ OamMatches(ppu) = {}
    /\ ArrGet(ppu.oam, 20) = 20
    /\ ppu.sprites[0] = [ y |-> 20, x |-> 1, index |-> 20 ]

\* the part of C35 that holds: the scan completes and the buffer starts with
\* the first ten matches in OAM order
OamScanPrefix == Scanned => OamPrefixRight

---------------------------------------------------------------------------
(* The Ppu: the object palettes OBP0 and OBP1, SpecPpu                     *)

\* the last operation was a write of OBP0 or OBP1
ObpWritten == p_last.op = "write8" /\ p_last.addr \in { \hFF48, \hFF49 }

\* the object palette and the register read-back of the address written
ObpPalette == IF p_last.addr = \hFF48 THEN ppu.sprite_palette1 ELSE ppu.sprite_palette2
ObpRead    == IF p_last.addr = \hFF48 THEN ppu_read_obp0(ppu) ELSE ppu_read_obp1(ppu)

\* C36: a write of any byte v to OBP0 (0xFF48) or OBP1 (0xFF49) completes
\* without error and stores the palette entries of colours 1, 2 and 3 from
\* bits 3:2, 5:4 and 7:6 of v; reading the register back returns the same
\* bits 7:2
C36_ObpRoundTrip ==
    ObpWritten =>
        /\ ~panicked
        /\ \A c \in 1 .. 3 : ObpPalette[c - 1] = (p_last.val \div (2 ^ (2 * c))) % 4
        /\ ObpRead \div 4 = p_last.val \div 4

\* C36 witness of the divergence: the write of 0xE4 to OBP0 has panicked
C36_Witness ==
    /\ ObpWritten
    /\ p_last.addr = \hFF48
    /\ p_last.val = \hE4
    /\ panicked

---------------------------------------------------------------------------
(* The Cpu: flag, rotate, shift and 16-bit instructions, SpecAlu           *)

\* register and flag bytes of the runs
AluBytes == { \h00, \h01, \h7F, \h80, \h81, \hFF }
AluFlags == { \h00, FLAG_CARRY, FLAG_ZERO, FLAG_ZERO + FLAG_SUB + FLAG_HALF, \hF0 }
AluPairs == { << \h0000, \h0000 >>, << \h1234, \h5600 >> }
AluStackTops == { \h0000, \h00FF, \hDFF8, \hFFFF }

\* the operands of ADD SP,e8
AluOffsets == { \h00, \h01, \h08, \h7F, \h80, \hFF }

\* the instructions: one byte, CB and a second byte, or 0xE8 and an operand
AluPrograms ==
    { << op, 0 >> : op \in { \h07, \h0F, \h17, \h1F, \h1B, \h37, \h3F } }
        \cup { << \hCB, op >> : op \in CbArmOpcodes }
        \cup { << \hE8, e >> : e \in AluOffsets }

\* where the instruction is, 0x0150
AluSite == 336

InitAlu ==
    /\ InitState
    /\ \E a \in AluBytes, f \in AluFlags, pr \in AluPairs, sp \in AluStackTops :
           regs = [DefaultRegisters EXCEPT !.pc = AluSite, !.a = a, !.f = f,
                                           !.b = pr[1] \div 256, !.c = pr[1] % 256,
                                           !.d = pr[2] \div 256, !.e = pr[2] % 256,
                                           !.h = \hC0, !.l = \h10, !.sp = sp]
    /\ \E pg \in AluPrograms :
           cartridge = [ data |-> [k \in { a \in { AluSite, AluSite + 1 } : pg[a - AluSite + 1] # 0 }
                                      |-> pg[k - AluSite + 1]],
                         len |-> ROM_LEN ]
    /\ overflow_checks \in BOOLEAN
    /\ p_phase = "ops"
    /\ t_mode = "ops"

NextAlu == CExecute

SpecAlu == InitAlu /\ [][NextAlu]_vars

\* the last call of execute ran the instruction op, with the second byte op2
\* for a CB or 0xE8 instruction
Executed(op) == c_last.op = "execute" /\ c_last.opcode = op
SecondByte == mem_read8(Mem, (c_last.pre.pc + 1) % U16)

\* the registers but F and PC are as before the instruction
AluOthersKept(names) ==
    \A n \in { "a", "b", "c", "d", "e", "h", "l", "sp" } \ names : regs[n] = c_last.pre[n]

\* C37: SCF (0x37) sets C and clears N and H; CCF (0x3F) inverts C and clears
\* N and H; both leave Z and the other registers unchanged, for every prior
\* flag state
C37_ScfCcfFlags ==
    /\ Executed(\h37) =>
           /\ regs.f = BitOr(BitAnd(c_last.pre.f, FLAG_ZERO), FLAG_CARRY)
           /\ AluOthersKept({})
    /\ Executed(\h3F) =>
           /\ regs.f = BitOr(BitAnd(c_last.pre.f, FLAG_ZERO),
                             FLAG_CARRY - BitAnd(c_last.pre.f, FLAG_CARRY))
           /\ AluOthersKept({})

\* C37 witness of the divergence: SCF on clear flags has set H and left C clear
C37_Witness ==
    /\ Executed(\h37)
    /\ c_last.pre.f = 0
    /\ regs.f = FLAG_HALF

\* the bit a rotate or shift moves out of val: bit 7 for RLC, RL and SLA
\* (second bytes 0x07, 0x17, 0x27, and the opcodes 0x07 and 0x17 of RLCA and
\* RLA), bit 0 for the others
ShiftedOut(op2, val) ==
    IF op2 \in { \h07, \h17, \h27 } THEN val \div 128 ELSE val % 2

\* C38: for RLC, RRC, RL, RR, SLA, SRA and SRL of the CB page, for every
\* operand and prior flag state, Z is set exactly when the result is zero
\* (cleared otherwise), N and H are cleared and C is the bit shifted out;
\* RLCA, RRCA, RLA and RRA do the same on A, with Z always cleared
C38_RotateShiftFlags ==
    /\ Executed(\hCB) =>
           regs.f = (IF regs.a = 0 THEN FLAG_ZERO ELSE 0)
                    + FLAG_CARRY * ShiftedOut(SecondByte, c_last.pre.a)
    /\ (\E op \in { \h07, \h0F, \h17, \h1F } : Executed(op)) =>
           regs.f = FLAG_CARRY * ShiftedOut(c_last.opcode, c_last.pre.a)

\* C38 witness of the divergence: RLC A of 0x01 with every flag set has given
\* 0x02 and left Z, N and H set
C38_Witness ==
    /\ Executed(\hCB)
    /\ SecondByte = \h07
    /\ c_last.pre.a = \h01
    /\ c_last.pre.f = \hF0
    /\ regs.a = \h02
    /\ regs.f = FLAG_ZERO + FLAG_SUB + FLAG_HALF

\* the results of the rotates and shifts are the LR35902's
RotateShiftResults ==
    Executed(\hCB) =>
        LET a == c_last.pre.a
            cin == FlagBit(c_last.pre, FLAG_CARRY)
        IN  regs.a = CASE SecondByte = \h07 -> ((a * 2) % U8) + (a \div 128)
                       [] SecondByte = \h0F -> (a \div 2) + 128 * (a % 2)
                       [] SecondByte = \h17 -> ((a * 2) % U8) + cin
                       [] SecondByte = \h1F -> (a \div 2) + 128 * cin
                       [] SecondByte = \h27 -> (a * 2) % U8
                       [] SecondByte = \h2F -> (a \div 2) + 128 * (a \div 128)
                       [] SecondByte = \h3F -> a \div 2

\* the value of a byte read as a two's complement number
Signed8(e) == IF e >= 128 THEN e - U8 ELSE e

\* C39: ADD SP,e8 (0xE8) adds its operand, as a signed 8-bit value, to SP
\* modulo 65536 (the operand 0xFF decrements SP by 1); Z and N are cleared,
\* H is the carry out of bit 3 and C the carry out of bit 7 of the unsigned
\* addition of the low byte of SP and the operand
C39_AddSpSigned ==
    Executed(\hE8) =>
        /\ regs.sp = (c_last.pre.sp + Signed8(SecondByte) + U16) % U16
        /\ regs.f = (IF (c_last.pre.sp % 16) + (SecondByte % 16) > \h0F
                     THEN FLAG_HALF ELSE 0)
                    + (IF (c_last.pre.sp % U8) + SecondByte > \hFF
                       THEN FLAG_CARRY ELSE 0)

\* C39 witness of the divergence: ADD SP,0xFF on SP = 0xDFF8 has added 255
C39_Witness ==
    /\ Executed(\hE8)
    /\ SecondByte = \hFF
    /\ c_last.pre.sp = \hDFF8
    /\ regs.sp = \hE0F7
    /\ regs.f = c_last.pre.f

\* C40: the opcode 0x1B (DEC DE) decrements DE modulo 65536 and leaves BC, HL,
\* A, SP and the flags unchanged
C40_DecDe ==
    Executed(\h1B) =>
        /\ get_de(regs) = dec16(get_de(c_last.pre))
        /\ regs.f = c_last.pre.f
        /\ AluOthersKept({ "d", "e" })

\* C40 witness of the divergence: 0x1B has decremented BC and left DE
C40_Witness ==
    /\ Executed(\h1B)
    /\ get_bc(c_last.pre) = \h1234
    /\ get_bc(regs) = \h1233
    /\ get_de(regs) = \h5600
    /\ get_de(c_last.pre) = \h5600

====
